---------------------------- MODULE Spec2Model ----------------------------
(***************************************************************************)
(* A model of the choropleth renderer of dp-map-renderer                   *)
(* (renderer/svg.go): PrepareSVGRequest, RenderSVG, RenderHorizontalKey    *)
(* and RenderVerticalKey over one RenderRequest, and the process-wide      *)
(* pngConverter; the HTTP boundary in front of them (api), and a second    *)
(* invocation that runs concurrently with the first.                       *)
(*                                                                         *)
(* Numbers: the code computes in float64.  The model draws every input     *)
(* from integers chosen so that the code's arithmetic stays integral; the  *)
(* two quotients the code forms by totalRange (RelativeSize, referencePos) *)
(* are kept as exact fractions [num, den], a zero den standing for the     *)
(* NaN / Inf the float division yields.                                    *)
(* Text is modelled by TLA+ strings; fmt's %g of an integral value is      *)
(* ToString.                                                               *)
(* A Go run-time panic (index out of range, nil dereference) ends the      *)
(* invocation: pc names the function that panicked.                        *)
(***************************************************************************)
EXTENDS Integers, Sequences, FiniteSets, TLC

VARIABLES
    request,       \* the models.RenderRequest handed to PrepareSVGRequest
    pngConverter,  \* the process-wide converter reference (svg.go:39)
    svgRequest,    \* the SVGRequest built by PrepareSVGRequest (svg.go:53-64)
    pc,            \* "new", "prepared", or the function that panicked
    out,           \* the fragments returned by the three Render functions
    response,      \* the HTTP response of the api, NoResponse for a library call
    parked         \* the invocations that are not running at the moment

vars == <<request, pngConverter, svgRequest, pc, out, response, parked>>

----------------------------------------------------------------------------
(* Bounds of the model *)

MaxBreaks == 3      \* longest choropleth.breaks list
MaxData == 2        \* longest data list

\* the values data rows, lower bounds and reference values are drawn from
Values == {-2, -1, 0, 2}
\* the explicit upper bounds; 0 is the zero value of an absent upper_bound
UpperBounds == {0, 1}

----------------------------------------------------------------------------
(* Program constants *)

RegionClassName == "mapRegion"
MissingDataText == "data unavailable"
DefaultViewBoxWidth == 400
HorizontalKeyHeight == 90

\* the converter reference when none is configured (Go nil)
NoConverter == "nil"
Converters == {"converter"}

----------------------------------------------------------------------------
(* Helpers *)

Min2(a, b) == IF a < b THEN a ELSE b
Max2(a, b) == IF a > b THEN a ELSE b

\* all sequences over S of length 0..n
SeqsUpTo(S, n) == UNION {[1..k -> S] : k \in 0..n}

\* the permutations of 1..n, as functions
Perms(n) == {p \in [1..n -> 1..n] : \A i, j \in 1..n : i # j => p[i] # p[j]}

\* s without its i-th element
RemoveAt(s, i) == [k \in 1..(Len(s) - 1) |-> IF k < i THEN s[k] ELSE s[k + 1]]

\* fmt.Sprintf("%g", v) of an integral float64
FormatG(v) == ToString(v)

\* ---- float64 quantities that are not integral: exact fractions n/d with
\* d > 0 in lowest terms, and the values +Inf, -Inf and NaN that a float
\* division by zero yields
Abs(a) == IF a < 0 THEN -a ELSE a
Sign(a) == IF a > 0 THEN 1 ELSE IF a < 0 THEN -1 ELSE 0

RECURSIVE GCD(_, _)
GCD(a, b) == IF b = 0 THEN a ELSE GCD(b, a % b)

Fin(n, d) ==
    LET g == GCD(Abs(n), d)
    IN  [kind |-> "fin", n |-> n \div g, d |-> d \div g]
PosInf == [kind |-> "+inf", n |-> 1, d |-> 1]
NegInf == [kind |-> "-inf", n |-> -1, d |-> 1]
NaN == [kind |-> "nan", n |-> 0, d |-> 1]

FInt(a) == Fin(a, 1)
FSign(x) == Sign(x.n)

\* a / b of two integral floats
FDiv(a, b) ==
    IF b # 0 THEN Fin(a * Sign(b), Abs(b))
    ELSE IF a > 0 THEN PosInf ELSE IF a < 0 THEN NegInf ELSE NaN

FNeg(x) ==
    IF x.kind = "fin" THEN Fin(-x.n, x.d)
    ELSE IF x.kind = "+inf" THEN NegInf
    ELSE IF x.kind = "-inf" THEN PosInf
    ELSE NaN

FAdd(x, y) ==
    IF x.kind = "nan" \/ y.kind = "nan" THEN NaN
    ELSE IF x.kind = "fin" /\ y.kind = "fin" THEN Fin(x.n * y.d + y.n * x.d, x.d * y.d)
    ELSE IF x.kind = "fin" THEN y
    ELSE IF y.kind = "fin" THEN x
    ELSE IF x.kind = y.kind THEN x
    ELSE NaN

FSub(x, y) == FAdd(x, FNeg(y))

FMul(x, y) ==
    IF x.kind = "nan" \/ y.kind = "nan" THEN NaN
    ELSE IF x.kind = "fin" /\ y.kind = "fin" THEN Fin(x.n * y.n, x.d * y.d)
    ELSE IF FSign(x) * FSign(y) > 0 THEN PosInf
    ELSE IF FSign(x) * FSign(y) < 0 THEN NegInf
    ELSE NaN

FAbs(x) ==
    IF x.kind = "fin" THEN Fin(Abs(x.n), x.d)
    ELSE IF x.kind = "nan" THEN NaN
    ELSE PosInf

\* x < y; every comparison with NaN is false
FLess(x, y) ==
    IF x.kind = "nan" \/ y.kind = "nan" THEN FALSE
    ELSE IF x.kind = "fin" /\ y.kind = "fin" THEN x.n * y.d < y.n * x.d
    ELSE IF x.kind = y.kind THEN FALSE
    ELSE x.kind = "-inf" \/ y.kind = "+inf"

FGreater(x, y) == FLess(y, x)

\* the fraction a stored quotient [num, den] stands for
Quotient(q) == FDiv(q.num, q.den)



----------------------------------------------------------------------------
(* Collaborators outside renderer/svg.go *)

\* idPrefix(request): the prefix of every generated element id, derived from
\* the request's filename
idPrefix(req) == req.Filename

\* mapID(request): the id of the figure container
mapID(req) == req.Filename \o "-map"

\* htmlutil.GetApproximateTextWidth: a per-character average width scaled by
\* the font size
GetApproximateTextWidth(text, fontSize) == (Len(text) * fontSize) \div 2

\* Topology.ToGeoJSON: one feature per object, in object order, carrying the
\* object's id and properties
ToGeoJSON(topojson) ==
    [i \in 1..Len(topojson.Objects) |->
        [ID |-> topojson.Objects[i].ID,
         idProp |-> topojson.Objects[i].idProp,
         name |-> topojson.Objects[i].name,
         class |-> [exists |-> FALSE, v |-> ""],
         style |-> topojson.Objects[i].style]]

\* SVG.GetHeightForWidth: the height that keeps the aspect ratio of the
\* projected bounding box at the given width
GetHeightForWidth(topojson, width) ==
    (width * topojson.BoxHeight) \div topojson.BoxWidth

----------------------------------------------------------------------------
(* renderer/svg.go: geometry and width *)

\* getGeoJSON (svg.go:133-143): nil when there is nothing to decode
getGeoJSON(req) ==
    IF \/ ~req.Geography.present
       \/ ~req.Geography.hasTopojson
       \/ req.Geography.Topojson.Arcs = 0
       \/ Len(req.Geography.Topojson.Objects) = 0
    THEN [isNil |-> TRUE, Features |-> <<>>]
    ELSE [isNil |-> FALSE, Features |-> ToGeoJSON(req.Geography.Topojson)]

\* a width policy that averages only when both widths are given
viewBoxWidthBothRequired(req) ==
    IF req.DefaultWidth > 0 THEN req.DefaultWidth
    ELSE IF req.MinWidth > 0 /\ req.MaxWidth > 0
         THEN (req.MinWidth + req.MaxWidth) \div 2
         ELSE DefaultViewBoxWidth

\* getViewBoxDimensions, the width it settles on (svg.go:148-154)
viewBoxWidth(req) ==
    LET w1 == IF req.DefaultWidth <= 0
              THEN (req.MinWidth + req.MaxWidth) \div 2
              ELSE req.DefaultWidth
    IN  IF w1 <= 0 THEN DefaultViewBoxWidth ELSE w1

\* getViewBoxDimensions (svg.go:147-157)
getViewBoxDimensions(req) ==
    LET width == viewBoxWidth(req)
    IN  <<width, GetHeightForWidth(req.Geography.Topojson, width)>>

\* a request whose fixed width switches the responsive mode off
responsiveSizeUnlessFixed(req) ==
    req.DefaultWidth <= 0 /\ req.MinWidth > 0 /\ req.MaxWidth > 0

\* responsiveSize (svg.go:78)
responsiveSize(req) == req.MinWidth > 0 /\ req.MaxWidth > 0

----------------------------------------------------------------------------
(* renderer/svg.go: colours *)

\* sortBreaks (svg.go:240-250): a sorted copy.  sort.Slice is not stable, so
\* breaks with equal lower bounds may come out in either order: the set of
\* the orders it may return.
sortBreaks(breaks, asc) ==
    LET n == Len(breaks)
        sorted(p) == \A i \in 1..(n - 1) :
                        IF asc
                        THEN breaks[p[i]].LowerBound <= breaks[p[i + 1]].LowerBound
                        ELSE breaks[p[i]].LowerBound >= breaks[p[i + 1]].LowerBound
    IN  {[i \in 1..n |-> breaks[p[i]]] : p \in {q \in Perms(n) : sorted(q)}}

\* a sortBreaks that sorts the slice it is passed
breaksSortedInPlace(breaks, c) == c

\* the slice passed to sortBreaks, after the call: sortBreaks copies it into
\* c and sorts c (svg.go:241-243)
breaksAfterSort(breaks, c) == breaks

\* request.Data after getSortedBreakInfo, which copies the rows and sorts the
\* copy (svg.go:507-509)
dataAfterSort(rows) == rows

\* a getColour that compares with > where the code compares with >=
getColourStrict(value, breaks) ==
    LET hits == {i \in 1..Len(breaks) : value > breaks[i].LowerBound}
    IN  IF hits # {}
        THEN breaks[CHOOSE i \in hits : \A j \in hits : i <= j].Colour
        ELSE breaks[Len(breaks)].Colour

\* getColour (svg.go:230-237), for a non-empty list of breaks
getColour(value, breaks) ==
    LET hits == {i \in 1..Len(breaks) : value >= breaks[i].LowerBound}
    IN  IF hits # {}
        THEN breaks[CHOOSE i \in hits : \A j \in hits : i <= j].Colour
        ELSE breaks[Len(breaks)].Colour

\* getColour on an empty list indexes breaks[-1] (svg.go:236): a panic
getColourPanics(breaks) == Len(breaks) = 0

\* mapDataToColour (svg.go:219-227), given the descending copy sortBreaks
\* returned: the map prefix+row.ID -> valueAndColour, a later row replacing
\* an earlier one with the same id
mapDataToColour(data, breaks, prefix) ==
    LET keys == {prefix \o data[i].ID : i \in 1..Len(data)}
        last(k) == CHOOSE i \in 1..Len(data) :
                      /\ prefix \o data[i].ID = k
                      /\ \A j \in 1..Len(data) : prefix \o data[j].ID = k => j <= i
    IN  [k \in keys |->
            [value |-> data[last(k)].Value,
             colour |-> getColour(data[last(k)].Value, breaks)]]

\* mapDataToColour calls getColour once per row
mapDataToColourPanics(data, breaks) == Len(data) > 0 /\ getColourPanics(breaks)

----------------------------------------------------------------------------
(* renderer/svg.go: features *)

\* setFeatureIDs (svg.go:160-172): the id property if it is a non-empty
\* string, else the feature's own id if that is one, each behind the prefix;
\* otherwise the id is left alone.  "" stands for an absent or non-string id.
setFeatureIDs(features, prefix) ==
    [i \in 1..Len(features) |->
        IF features[i].idProp # ""
        THEN [features[i] EXCEPT !.ID = prefix \o features[i].idProp]
        ELSE IF features[i].ID # ""
             THEN [features[i] EXCEPT !.ID = prefix \o features[i].ID]
             ELSE features[i]]

\* appendProperty (svg.go:183-189) on one property [exists, v]: the new value,
\* then a space and the existing value if there is one
appendProperty(property, value) ==
    [exists |-> TRUE,
     v |-> IF property.exists THEN value \o " " \o property.v ELSE value]

\* setClassProperty (svg.go:175-179)
setClassProperty(features, className) ==
    [i \in 1..Len(features) |->
        [features[i] EXCEPT !.class = appendProperty(features[i].class, className)]]

\* the style given to a region without a data row (svg.go:200)
missingValueStyle(id) == "fill: url(#" \o id \o "-nodata);"

\* the style given to a region with a data row (svg.go:208)
fillStyle(colour) == "fill: " \o colour \o ";"

\* the title given to a region with a data row (svg.go:209)
valueTitle(title, choropleth, value) ==
    title \o " " \o choropleth.ValuePrefix \o FormatG(value) \o choropleth.ValueSuffix

\* the title given to a region without a data row (svg.go:211)
missingTitle(title) == title \o " " \o MissingDataText

\* setChoroplethColoursAndTitles past its early return (svg.go:198-215),
\* given the descending copy of the breaks that sortBreaks returned inside
\* mapDataToColour
setChoroplethColoursAndTitlesAlways(features, req, breaks) ==
    LET id == idPrefix(req)
        dataMap == mapDataToColour(req.Data.rows, breaks, id \o "-")
    IN  [i \in 1..Len(features) |->
            LET feature == features[i]
                exists == feature.ID \in DOMAIN dataMap
            IN  [feature EXCEPT
                    !.name = IF exists
                             THEN valueTitle(feature.name, req.Choropleth,
                                             dataMap[feature.ID].value)
                             ELSE missingTitle(feature.name),
                    !.style = appendProperty(feature.style,
                                 IF exists
                                 THEN fillStyle(dataMap[feature.ID].colour)
                                 ELSE missingValueStyle(id))]]

\* a setChoroplethColoursAndTitles that colours the regions that have a data
\* row and leaves the others as they are
setChoroplethColoursAndTitlesMatchedOnly(features, req, breaks) ==
    IF ~req.Choropleth.present \/ req.Data.isNil
    THEN features
    ELSE LET coloured == setChoroplethColoursAndTitlesAlways(features, req, breaks)
             dataMap == mapDataToColour(req.Data.rows, breaks, idPrefix(req) \o "-")
         IN  [i \in 1..Len(features) |->
                IF features[i].ID \in DOMAIN dataMap THEN coloured[i] ELSE features[i]]

\* setChoroplethColoursAndTitles (svg.go:193-216)
setChoroplethColoursAndTitles(features, req, breaks) ==
    IF ~req.Choropleth.present \/ req.Data.isNil
    THEN features
    ELSE setChoroplethColoursAndTitlesAlways(features, req, breaks)

\* setChoroplethColoursAndTitles panics where mapDataToColour does
setChoroplethColoursAndTitlesPanics(req) ==
    /\ req.Choropleth.present
    /\ ~req.Data.isNil
    /\ mapDataToColourPanics(req.Data.rows, req.Choropleth.Breaks)

----------------------------------------------------------------------------
(* renderer/svg.go: break info *)

\* the least and the greatest value of the data: data[0].Value and
\* data[len(data)-1].Value of the copy sorted by value (svg.go:507-515)
dataMinValue(rows) ==
    CHOOSE v \in {rows[i].Value : i \in 1..Len(rows)} :
        \A j \in 1..Len(rows) : v <= rows[j].Value

dataMaxValue(rows) ==
    CHOOSE v \in {rows[i].Value : i \in 1..Len(rows)} :
        \A j \in 1..Len(rows) : v >= rows[j].Value

\* getSortedBreakInfo panics on data[0] when there is no data row
\* (svg.go:512) and on info[0], still nil, when there is one break
\* (svg.go:521-524)
getSortedBreakInfoPanics(req) ==
    \/ Len(req.Data.rows) = 0
    \/ Len(req.Choropleth.Breaks) = 1

\* minValue (svg.go:512), breaks being the ascending copy
breakMinValue(req, breaks) ==
    Min2(dataMinValue(req.Data.rows), breaks[1].LowerBound)

\* maxValue (svg.go:513-516)
breakMaxValue(req, breaks) ==
    IF req.Choropleth.UpperBound < breaks[Len(breaks)].LowerBound
    THEN dataMaxValue(req.Data.rows)
    ELSE req.Choropleth.UpperBound

\* a getSortedBreakInfo that leaves the first class at its break's lower
\* bound instead of minValue
getSortedBreakInfoKeepsFirstBound(req, breaks) ==
    LET minValue == breakMinValue(req, breaks)
        maxValue == breakMaxValue(req, breaks)
        breakCount == Len(breaks)
        upper(i) == IF i = breakCount THEN maxValue ELSE breaks[i + 1].LowerBound
    IN  [i \in 1..breakCount |->
            [LowerBound |-> breaks[i].LowerBound,
             UpperBound |-> upper(i),
             RelativeSize |-> [num |-> upper(i) - breaks[i].LowerBound,
                               den |-> maxValue - minValue],
             Colour |-> breaks[i].Colour]]

\* getSortedBreakInfo (svg.go:505-531), the info it returns, breaks being the
\* ascending copy that sortBreaks returned
getSortedBreakInfo(req, breaks) ==
    LET minValue == breakMinValue(req, breaks)
        maxValue == breakMaxValue(req, breaks)
        totalRange == maxValue - minValue
        breakCount == Len(breaks)
        lower(i) == IF i = 1 THEN minValue ELSE breaks[i].LowerBound
        upper(i) == IF i = breakCount THEN maxValue ELSE breaks[i + 1].LowerBound
    IN  [i \in 1..breakCount |->
            [LowerBound |-> lower(i),
             UpperBound |-> upper(i),
             RelativeSize |-> [num |-> upper(i) - lower(i), den |-> totalRange],
             Colour |-> breaks[i].Colour]]

\* getSortedBreakInfo, the reference position it returns (svg.go:529)
getReferencePos(req, breaks) ==
    LET minValue == breakMinValue(req, breaks)
        maxValue == breakMaxValue(req, breaks)
    IN  [num |-> req.Choropleth.ReferenceValue - minValue,
         den |-> maxValue - minValue]

\* getVerticalTickTextWidth (svg.go:410-426): <<width, offset>>
getVerticalTickTextWidth(req, breaks) ==
    LET widths == {GetApproximateTextWidth(FormatG(breaks[i].LowerBound), req.FontSize) :
                        i \in 1..Len(breaks)}
                  \cup {GetApproximateTextWidth(FormatG(breaks[i].UpperBound), req.FontSize) :
                        i \in 1..Len(breaks)}
                  \cup {0}
        maxTick == CHOOSE w \in widths : \A x \in widths : w >= x
        refTick == GetApproximateTextWidth(req.Choropleth.ReferenceValueText, req.FontSize)
        refValue == GetApproximateTextWidth(FormatG(req.Choropleth.ReferenceValue), req.FontSize)
        refWidth == Max2(refTick, refValue)
    IN  <<maxTick + refWidth + 38, maxTick - refWidth>>

\* getVerticalLegendWidth (svg.go:400-406): <<width, offset>>
getVerticalLegendWidth(req, breaks) ==
    LET missingWidth == GetApproximateTextWidth(MissingDataText, req.FontSize) + 12
        titleWidth == GetApproximateTextWidth(
                          req.Choropleth.ValuePrefix \o " " \o req.Choropleth.ValueSuffix,
                          req.FontSize)
        maxWidth == Max2(missingWidth, titleWidth)
        tick == getVerticalTickTextWidth(req, breaks)
    IN  <<Max2(maxWidth, tick[1]) + 10, tick[2]>>

----------------------------------------------------------------------------
(* renderer/svg.go: legends *)

LegendPositionBefore == "before"
LegendPositionAfter == "after"

\* a hasVerticalLegend that takes every position but 'none' for a legend
hasVerticalLegendUnlessNone(req) ==
    /\ req.Choropleth.present
    /\ req.Choropleth.VerticalLegendPosition # "none"

\* hasVerticalLegend (svg.go:385-389)
hasVerticalLegend(req) ==
    /\ req.Choropleth.present
    /\ req.Choropleth.VerticalLegendPosition \in {LegendPositionBefore, LegendPositionAfter}

\* hasHorizontalLegend (svg.go:392-396)
hasHorizontalLegend(req) ==
    /\ req.Choropleth.present
    /\ req.Choropleth.HorizontalLegendPosition \in {LegendPositionBefore, LegendPositionAfter}

\* getKeyClass (svg.go:376-382)
getKeyClass(req, keyType) ==
    LET keyClass == "map_key_" \o keyType
    IN  IF hasVerticalLegend(req) /\ hasHorizontalLegend(req)
        THEN keyClass \o " " \o keyClass \o "_both"
        ELSE keyClass

\* a getHorizontalRefTextInfo that takes the label for the longer text when
\* the two widths are equal
getHorizontalRefTextInfoLabelFirst(req) ==
    LET refTextLen == GetApproximateTextWidth(req.Choropleth.ReferenceValueText, req.FontSize)
        refValue == FormatG(req.Choropleth.ReferenceValue)
        refValueLen == GetApproximateTextWidth(refValue, req.FontSize)
    IN  IF refTextLen >= refValueLen
        THEN [referenceTextLong |-> req.Choropleth.ReferenceValueText,
              referenceTextLongLen |-> refTextLen,
              referenceTextShort |-> refValue,
              referenceTextShortLen |-> refValueLen]
        ELSE [referenceTextLong |-> refValue,
              referenceTextLongLen |-> refValueLen,
              referenceTextShort |-> req.Choropleth.ReferenceValueText,
              referenceTextShortLen |-> refTextLen]

\* getHorizontalRefTextInfo (svg.go:596-613)
getHorizontalRefTextInfo(req) ==
    LET refTextLen == GetApproximateTextWidth(req.Choropleth.ReferenceValueText, req.FontSize)
        refValue == FormatG(req.Choropleth.ReferenceValue)
        refValueLen == GetApproximateTextWidth(refValue, req.FontSize)
    IN  IF refTextLen > refValueLen
        THEN [referenceTextLong |-> req.Choropleth.ReferenceValueText,
              referenceTextLongLen |-> refTextLen,
              referenceTextShort |-> refValue,
              referenceTextShortLen |-> refValueLen]
        ELSE [referenceTextLong |-> refValue,
              referenceTextLongLen |-> refValueLen,
              referenceTextShort |-> req.Choropleth.ReferenceValueText,
              referenceTextShortLen |-> refTextLen]

\* a getHorizontalKeyInfo that keeps a shortened key centred
getHorizontalKeyInfoCentred(svgWidth, svgReq, req) ==
    LET refInfo == getHorizontalRefTextInfo(req)
        keyWidth0 == FMul(FInt(svgWidth), Fin(9, 10))
        keyX0 == FMul(FSub(FInt(svgWidth), keyWidth0), Fin(1, 2))
        breaks == svgReq.breaks
        left0 == Fin(GetApproximateTextWidth(FormatG(breaks[1].LowerBound), req.FontSize), 2)
        right0 == Fin(GetApproximateTextWidth(FormatG(breaks[Len(breaks)].UpperBound),
                                              req.FontSize), 2)
        switch == FLess(Quotient(svgReq.referencePos), Fin(1, 2))
        textLeft == IF switch THEN refInfo.referenceTextShort ELSE refInfo.referenceTextLong
        textLeftLen == IF switch THEN refInfo.referenceTextShortLen
                       ELSE refInfo.referenceTextLongLen
        textRight == IF switch THEN refInfo.referenceTextLong ELSE refInfo.referenceTextShort
        textRightLen == IF switch THEN refInfo.referenceTextLongLen
                        ELSE refInfo.referenceTextShortLen
        refPos == FMul(keyWidth0, Quotient(svgReq.referencePos))
        leftEnd == FSub(refPos, FInt(textLeftLen))
        rightEnd == FSub(FAdd(refPos, FInt(textRightLen)), keyWidth0)
        left == IF FLess(leftEnd, FNeg(left0)) THEN FAbs(leftEnd) ELSE left0
        right == IF FGreater(rightEnd, right0) THEN rightEnd ELSE right0
        shorten == FGreater(FAdd(FAdd(keyWidth0, left), right), FInt(svgWidth))
    IN  [referenceTextLeft |-> textLeft,
         referenceTextLeftLen |-> textLeftLen,
         referenceTextRight |-> textRight,
         referenceTextRightLen |-> textRightLen,
         keyWidth |-> IF shorten THEN FSub(FInt(svgWidth), FAdd(left, right)) ELSE keyWidth0,
         keyX |-> IF shorten
                  THEN FMul(FAdd(left, right), Fin(1, 2))
                  ELSE keyX0]

\* getHorizontalKeyInfo (svg.go:545-585)
getHorizontalKeyInfo(svgWidth, svgReq, req) ==
    LET refInfo == getHorizontalRefTextInfo(req)
        keyWidth0 == FMul(FInt(svgWidth), Fin(9, 10))
        keyX0 == FMul(FSub(FInt(svgWidth), keyWidth0), Fin(1, 2))
        breaks == svgReq.breaks
        left0 == Fin(GetApproximateTextWidth(FormatG(breaks[1].LowerBound), req.FontSize), 2)
        right0 == Fin(GetApproximateTextWidth(FormatG(breaks[Len(breaks)].UpperBound),
                                              req.FontSize), 2)
        switch == FLess(Quotient(svgReq.referencePos), Fin(1, 2))
        textLeft == IF switch THEN refInfo.referenceTextShort ELSE refInfo.referenceTextLong
        textLeftLen == IF switch THEN refInfo.referenceTextShortLen
                       ELSE refInfo.referenceTextLongLen
        textRight == IF switch THEN refInfo.referenceTextLong ELSE refInfo.referenceTextShort
        textRightLen == IF switch THEN refInfo.referenceTextLongLen
                        ELSE refInfo.referenceTextShortLen
        refPos == FMul(keyWidth0, Quotient(svgReq.referencePos))
        leftEnd == FSub(refPos, FInt(textLeftLen))
        rightEnd == FSub(FAdd(refPos, FInt(textRightLen)), keyWidth0)
        left == IF FLess(leftEnd, FNeg(left0)) THEN FAbs(leftEnd) ELSE left0
        right == IF FGreater(rightEnd, right0) THEN rightEnd ELSE right0
        shorten == FGreater(FAdd(FAdd(keyWidth0, left), right), FInt(svgWidth))
    IN  [referenceTextLeft |-> textLeft,
         referenceTextLeftLen |-> textLeftLen,
         referenceTextRight |-> textRight,
         referenceTextRightLen |-> textRightLen,
         keyWidth |-> IF shorten THEN FSub(FInt(svgWidth), FAdd(left, right)) ELSE keyWidth0,
         keyX |-> IF shorten THEN left ELSE keyX0]

\* the sum of the sizes RelativeSize * extent of the first k classes: the
\* running left (svg.go:282-290) and position (svg.go:342-350)
RECURSIVE keyOffset(_, _, _)
keyOffset(breaks, extent, k) ==
    IF k = 0 THEN FInt(0)
    ELSE FAdd(keyOffset(breaks, extent, k - 1),
              FMul(Quotient(breaks[k].RelativeSize), extent))

\* writeHorizontalKeyRefTick (svg.go:456-472)
writeHorizontalKeyRefTick(keyInfo, svgReq) ==
    LET xPos == FMul(keyInfo.keyWidth, Quotient(svgReq.referencePos))
        svgWidth == FInt(svgReq.ViewBoxWidth)
        tickX == FAdd(xPos, keyInfo.keyX)
        fitLeft == FGreater(FInt(keyInfo.referenceTextLeftLen), tickX)
        fitRight == FGreater(FInt(keyInfo.referenceTextRightLen), FSub(svgWidth, tickX))
    IN  [drawn |-> TRUE,
         x |-> xPos,
         textLeft |-> keyInfo.referenceTextLeft,
         textLeftLength |-> IF fitLeft THEN FSub(tickX, FInt(1)) ELSE FInt(keyInfo.referenceTextLeftLen),
         textLeftAdjusted |-> fitLeft,
         textRight |-> keyInfo.referenceTextRight,
         textRightLength |-> IF fitRight THEN FSub(FSub(svgWidth, tickX), FInt(2))
                             ELSE FInt(keyInfo.referenceTextRightLen),
         textRightAdjusted |-> fitRight]

NoRefTick ==
    [drawn |-> FALSE, x |-> FInt(0),
     textLeft |-> "", textLeftLength |-> FInt(0), textLeftAdjusted |-> FALSE,
     textRight |-> "", textRightLength |-> FInt(0), textRightAdjusted |-> FALSE]

\* a key that hands its markup to any configured converter, requested or not
keyUsesConverterIgnoringRequest(converter, req) ==
    converter # NoConverter

\* the converter a key hands its markup to (svg.go:301-304, 363-366)
keyUsesConverter(converter, req) ==
    ~(converter = NoConverter \/ req.IncludeFallbackPng = FALSE)

\* the fragments before any is rendered, and the empty string
NotRendered == [done |-> FALSE, empty |-> TRUE]
EmptyString == [done |-> TRUE, empty |-> TRUE]

\* RenderHorizontalKey and RenderVerticalKey dereference request.Choropleth
\* (svg.go:598, 370) and index breaks[0] / breaks[len(breaks)-1]
\* (svg.go:556, 291, 351)
keyPanics(svgReq, req) ==
    ~req.Choropleth.present \/ Len(svgReq.breaks) = 0

\* RenderHorizontalKey (svg.go:253-305), the fragment for a decoded topology
horizontalKey(svgReq, req, converter) ==
    LET keyInfo == getHorizontalKeyInfo(svgReq.ViewBoxWidth, svgReq, req)
        id == idPrefix(req)
        missingId == id \o "-horizontal"
        breaks == svgReq.breaks
    IN  [done |-> TRUE,
         empty |-> FALSE,
         png |-> keyUsesConverter(converter, req),
         id |-> id \o "-legend-horizontal-svg",
         class |-> getKeyClass(req, "horizontal"),
         viewBox |-> <<FInt(svgReq.ViewBoxWidth), FInt(HorizontalKeyHeight)>>,
         fixedSize |-> ~svgReq.responsiveSize,
         size |-> IF ~svgReq.responsiveSize
                  THEN <<FInt(svgReq.ViewBoxWidth), FInt(HorizontalKeyHeight)>>
                  ELSE <<>>,
         patternId |-> missingId \o "-nodata",
         containerId |-> id \o "-legend-horizontal-container",
         keyId |-> id \o "-legend-horizontal-key",
         keyInfo |-> keyInfo,
         rects |-> [i \in 1..Len(breaks) |->
                      [size |-> FMul(Quotient(breaks[i].RelativeSize), keyInfo.keyWidth),
                       pos |-> keyOffset(breaks, keyInfo.keyWidth, i - 1),
                       colour |-> breaks[i].Colour]],
         ticks |-> [i \in 1..(Len(breaks) + 1) |->
                      [pos |-> keyOffset(breaks, keyInfo.keyWidth, i - 1),
                       value |-> IF i <= Len(breaks) THEN breaks[i].LowerBound
                                 ELSE breaks[Len(breaks)].UpperBound]],
         refTick |-> IF Len(req.Choropleth.ReferenceValueText) > 0
                     THEN writeHorizontalKeyRefTick(keyInfo, svgReq)
                     ELSE NoRefTick]

\* RenderVerticalKey (svg.go:308-367), the fragment for a decoded topology
verticalKey(svgReq, req, converter) ==
    LET svgHeight == FInt(svgReq.ViewBoxHeight)
        breaks == svgReq.breaks
        keyHeight == FMul(svgHeight, Fin(8, 10))
        keyWidth == svgReq.VerticalLegendWidth
        offset == svgReq.verticalKeyOffset
        id == idPrefix(req)
        missingId == id \o "-vertical"
    IN  [done |-> TRUE,
         empty |-> FALSE,
         png |-> keyUsesConverter(converter, req),
         id |-> id \o "-legend-vertical-svg",
         class |-> getKeyClass(req, "vertical"),
         viewBox |-> <<FInt(keyWidth), svgHeight>>,
         fixedSize |-> ~svgReq.responsiveSize,
         size |-> IF ~svgReq.responsiveSize THEN <<FInt(keyWidth), svgHeight>> ELSE <<>>,
         patternId |-> missingId \o "-nodata",
         containerId |-> id \o "-legend-vertical-container",
         keyId |-> id \o "-legend-vertical-key",
         keyInfo |-> [keyHeight |-> keyHeight,
                      keyX |-> Fin(keyWidth + offset, 2),
                      keyY |-> FMul(svgHeight, Fin(1, 10))],
         rects |-> [i \in 1..Len(breaks) |->
                      [size |-> FMul(Quotient(breaks[i].RelativeSize), keyHeight),
                       pos |-> FSub(FSub(keyHeight, keyOffset(breaks, keyHeight, i - 1)),
                                    FMul(Quotient(breaks[i].RelativeSize), keyHeight)),
                       colour |-> breaks[i].Colour]],
         ticks |-> [i \in 1..(Len(breaks) + 1) |->
                      [pos |-> FSub(keyHeight, keyOffset(breaks, keyHeight, i - 1)),
                       value |-> IF i <= Len(breaks) THEN breaks[i].LowerBound
                                 ELSE breaks[Len(breaks)].UpperBound]],
         refTick |-> IF Len(req.Choropleth.ReferenceValueText) > 0
                     THEN [NoRefTick EXCEPT
                             !.drawn = TRUE,
                             !.x = FSub(keyHeight,
                                        FMul(keyHeight, Quotient(svgReq.referencePos))),
                             !.textLeft = req.Choropleth.ReferenceValueText,
                             !.textLeftLength = FInt(GetApproximateTextWidth(
                                 req.Choropleth.ReferenceValueText, req.FontSize)),
                             !.textRight = FormatG(req.Choropleth.ReferenceValue)]
                     ELSE NoRefTick]

----------------------------------------------------------------------------
(* The requests the model is run on *)

NoProperty == [exists |-> FALSE, v |-> ""]

\* topology objects: one identified by its id property, one by its own id
\* and carrying a style, one with no id at all
ObjectNorth == [ID |-> "", idProp |-> "E1", name |-> "North", style |-> NoProperty]
ObjectSouth == [ID |-> "E2", idProp |-> "", name |-> "South",
                style |-> [exists |-> TRUE, v |-> "stroke: black;"]]
ObjectAnon == [ID |-> "", idProp |-> "", name |-> "", style |-> NoProperty]

\* an object whose id is the name the renderer gives its missing-data pattern
ObjectNodata == [ID |-> "", idProp |-> "nodata", name |-> "West", style |-> NoProperty]

Topology(arcs, objects) ==
    [Arcs |-> arcs, Objects |-> objects, BoxWidth |-> 2, BoxHeight |-> 1]

NoGeography ==
    [present |-> FALSE, hasTopojson |-> FALSE, Topojson |-> Topology(0, <<>>)]
GeographyOf(topojson) ==
    [present |-> TRUE, hasTopojson |-> TRUE, Topojson |-> topojson]

\* geographies with nothing to decode
UndecodableGeographies ==
    {NoGeography,
     [present |-> TRUE, hasTopojson |-> FALSE, Topojson |-> Topology(0, <<>>)],
     GeographyOf(Topology(0, <<ObjectNorth>>)),
     GeographyOf(Topology(1, <<>>))}

OneFeature == GeographyOf(Topology(1, <<ObjectNorth>>))
ThreeFeatures == GeographyOf(Topology(2, <<ObjectNorth, ObjectSouth, ObjectAnon>>))
PatternNamedFeature == GeographyOf(Topology(1, <<ObjectNodata>>))
DecodableGeographies == {OneFeature, ThreeFeatures}

\* the colour of the i-th break of a request
ColourOf(i) == "colour" \o ToString(i)

\* the lists of breaks with lower bounds drawn from S, of length 0..n
BreakLists(S, n) ==
    {[i \in 1..Len(bounds) |-> [LowerBound |-> bounds[i], Colour |-> ColourOf(i)]] :
        bounds \in SeqsUpTo(S, n)}

NoChoropleth ==
    [present |-> FALSE, Breaks |-> <<>>, UpperBound |-> 0,
     ReferenceValue |-> 0, ReferenceValueText |-> "",
     ValuePrefix |-> "", ValueSuffix |-> "",
     HorizontalLegendPosition |-> "", VerticalLegendPosition |-> ""]

ChoroplethOf(breaks, upperBound) ==
    [present |-> TRUE, Breaks |-> breaks, UpperBound |-> upperBound,
     ReferenceValue |-> 1, ReferenceValueText |-> "UK average",
     ValuePrefix |-> "GBP", ValueSuffix |-> "%",
     HorizontalLegendPosition |-> LegendPositionBefore,
     VerticalLegendPosition |-> "none"]

\* the absent data list (a nil slice), and the data lists with ids from ids
\* and values from S, of length 0..n
NoData == [isNil |-> TRUE, rows |-> <<>>]
DataLists(ids, S, n) ==
    {[isNil |-> FALSE, rows |-> rows] : rows \in SeqsUpTo([ID : ids, Value : S], n)}

\* the data lists of length 0..n whose i-th row has the id pattern[i] and a
\* value from S
PatternDataLists(pattern, S, n) ==
    {[isNil |-> FALSE,
      rows |-> [i \in 1..Len(values) |-> [ID |-> pattern[i], Value |-> values[i]]]] :
        values \in SeqsUpTo(S, Min2(n, Len(pattern)))}

\* row ids: E1 and E2 name features, E9 names none
MatchedFirst == <<"E1", "E9", "E2", "E1">>
UnmatchedFirst == <<"E9", "E1", "E1", "E2">>

RequestOf(geography, data, choropleth, widths, png) ==
    [Filename |-> "fig1",
     Geography |-> geography,
     Data |-> data,
     Choropleth |-> choropleth,
     DefaultWidth |-> widths[1],
     MinWidth |-> widths[2],
     MaxWidth |-> widths[3],
     IncludeFallbackPng |-> png,
     FontSize |-> 14]

----------------------------------------------------------------------------
(* State *)

NoSVGRequest ==
    [geoJSON |-> [isNil |-> TRUE, Features |-> <<>>],
     ViewBoxWidth |-> 0,
     ViewBoxHeight |-> 0,
     breaks |-> <<>>,
     referencePos |-> [num |-> 0, den |-> 1],
     VerticalLegendWidth |-> 0,
     verticalKeyOffset |-> 0,
     responsiveSize |-> FALSE]

\* pc after a run-time panic in the function fn
PanicIn(fn) == "panic in " \o fn

\* no HTTP request was received: the renderer is called as a library
NoResponse ==
    [renderType |-> "", wellFormed |-> TRUE, status |-> 0, body |-> "", figure |-> <<>>]

\* nothing rendered yet
NoOutput == [svg |-> NotRendered, horizontal |-> NotRendered, vertical |-> NotRendered]

\* an invocation that has not started: its request, and its own SVGRequest,
\* position and fragments
Invocation(req) ==
    [request |-> req, svgRequest |-> NoSVGRequest, pc |-> "new", out |-> NoOutput]

InitState ==
    /\ pngConverter = NoConverter
    /\ svgRequest = NoSVGRequest
    /\ pc = "new"
    /\ out = NoOutput
    /\ response = NoResponse

\* the lists of breaks of a request of Init
FewBreakLists == BreakLists({0}, 1) \cup BreakLists({-1, 2}, Min2(MaxBreaks, 2))

\* requests that vary the geography, the widths and the fallback flag, and
\* requests that vary the data and the breaks
Init ==
    /\ request \in
         {RequestOf(g, d, c, w, png) :
            g \in UndecodableGeographies \cup DecodableGeographies,
            d \in {NoData} \cup DataLists({"E1"}, {2}, 1),
            c \in {NoChoropleth, ChoroplethOf(CHOOSE b \in BreakLists({0, 2}, 2) :
                                                 Len(b) = 2 /\ b[1].LowerBound = 0
                                                 /\ b[2].LowerBound = 2, 0)},
            w \in {-100, 0, 300} \X {0, 200} \X {0, 600},
            png \in BOOLEAN}
         \cup
         {RequestOf(g, d, c, <<0, 0, 0>>, FALSE) :
            g \in {NoGeography, OneFeature, ThreeFeatures, PatternNamedFeature},
            d \in {NoData} \cup DataLists({"E1", "E9"}, {0, 2}, MaxData),
            c \in {NoChoropleth} \cup {ChoroplethOf(b, 0) : b \in FewBreakLists}}
    /\ InitState
    /\ parked = <<>>

\* the lists of breaks of a request of InitBreaks: lower bounds in any
\* order, and lists of two breaks with the same lower bound
ManyBreakLists ==
    {b \in BreakLists(Values, MaxBreaks) :
        \/ \A i, j \in 1..Len(b) : i # j => b[i].LowerBound # b[j].LowerBound
        \/ Len(b) = 2}

\* requests that vary the breaks, the data values and the upper bound over a
\* decodable topology
InitBreaks ==
    /\ request \in
         {RequestOf(ThreeFeatures, d, ChoroplethOf(b, u), <<0, 0, 0>>, FALSE) :
            d \in PatternDataLists(MatchedFirst, Values \ {-1}, MaxData)
                  \cup PatternDataLists(UnmatchedFirst, Values \ {-1}, MaxData),
            b \in ManyBreakLists,
            u \in UpperBounds}
    /\ InitState
    /\ parked = <<>>

----------------------------------------------------------------------------
(* Operations *)

\* UsePNGConverter (svg.go:42-44)
UsePNGConverter(p) ==
    /\ pngConverter' = p
    /\ UNCHANGED <<request, svgRequest, pc, out, response, parked>>

\* PrepareSVGRequest keeping the SVGRequest in one place for the whole
\* process: every invocation then works on the SVGRequest prepared last
PrepareSVGRequestSharedCache ==
    /\ pc = "new"
    /\ LET geoJSON == getGeoJSON(request)
           dims == IF ~geoJSON.isNil THEN getViewBoxDimensions(request) ELSE <<0, 0>>
           hasBreaks == request.Choropleth.present /\ Len(request.Choropleth.Breaks) > 0
           prepared == [NoSVGRequest EXCEPT
                          !.geoJSON = geoJSON,
                          !.ViewBoxWidth = dims[1],
                          !.ViewBoxHeight = dims[2],
                          !.responsiveSize = responsiveSize(request)]
       IN  IF ~hasBreaks
           THEN svgRequest' = prepared /\ pc' = "prepared" /\ UNCHANGED request
           ELSE \E breaks \in sortBreaks(request.Choropleth.Breaks, TRUE) :
                   /\ request' = [request EXCEPT
                                     !.Data.rows = dataAfterSort(@),
                                     !.Choropleth.Breaks = breaksAfterSort(@, breaks)]
                   /\ IF getSortedBreakInfoPanics(request)
                      THEN pc' = PanicIn("PrepareSVGRequest") /\ UNCHANGED svgRequest
                      ELSE LET info == getSortedBreakInfo(request, breaks)
                               legend == getVerticalLegendWidth(request, info)
                           IN  /\ svgRequest' = [prepared EXCEPT
                                                   !.breaks = info,
                                                   !.referencePos = getReferencePos(request, breaks),
                                                   !.VerticalLegendWidth = legend[1],
                                                   !.verticalKeyOffset = legend[2]]
                               /\ pc' = "prepared"
    /\ parked' = [k \in 1..Len(parked) |-> [parked[k] EXCEPT !.svgRequest = svgRequest']]
    /\ UNCHANGED <<pngConverter, out, response>>

\* PrepareSVGRequest (svg.go:67-96)
PrepareSVGRequest ==
    /\ pc = "new"
    /\ LET geoJSON == getGeoJSON(request)
           dims == IF ~geoJSON.isNil THEN getViewBoxDimensions(request) ELSE <<0, 0>>
           hasBreaks == request.Choropleth.present /\ Len(request.Choropleth.Breaks) > 0
           prepared == [NoSVGRequest EXCEPT
                          !.geoJSON = geoJSON,
                          !.ViewBoxWidth = dims[1],
                          !.ViewBoxHeight = dims[2],
                          !.responsiveSize = responsiveSize(request)]
       IN  IF ~hasBreaks
           THEN svgRequest' = prepared /\ pc' = "prepared" /\ UNCHANGED request
           ELSE \E breaks \in sortBreaks(request.Choropleth.Breaks, TRUE) :
                   /\ request' = [request EXCEPT
                                     !.Data.rows = dataAfterSort(@),
                                     !.Choropleth.Breaks = breaksAfterSort(@, breaks)]
                   /\ IF getSortedBreakInfoPanics(request)
                      THEN pc' = PanicIn("PrepareSVGRequest") /\ UNCHANGED svgRequest
                      ELSE LET info == getSortedBreakInfo(request, breaks)
                               legend == getVerticalLegendWidth(request, info)
                           IN  /\ svgRequest' = [prepared EXCEPT
                                                   !.breaks = info,
                                                   !.referencePos = getReferencePos(request, breaks),
                                                   !.VerticalLegendWidth = legend[1],
                                                   !.verticalKeyOffset = legend[2]]
                               /\ pc' = "prepared"
    /\ UNCHANGED <<pngConverter, out, response, parked>>

\* the markup DrawWithProjection is asked for (svg.go:114-129)
mapSVG(svgReq, req, features, converter) ==
    [done |-> TRUE,
     empty |-> FALSE,
     png |-> (IF ~req.IncludeFallbackPng THEN NoConverter ELSE converter) # NoConverter,
     id |-> mapID(req) \o "-svg",
     viewBox |-> <<FInt(svgReq.ViewBoxWidth), FInt(svgReq.ViewBoxHeight)>>,
     fixedSize |-> ~svgReq.responsiveSize,
     patternId |-> idPrefix(req) \o "-nodata",
     regions |-> [i \in 1..Len(features) |->
                    [id |-> features[i].ID,
                     class |-> features[i].class.v,
                     style |-> features[i].style.v,
                     title |-> features[i].name]]]

\* one call of RenderSVG (svg.go:99-130) on the prepared SVGRequest
RenderSVGCall ==
    /\ pc = "prepared"
    /\ IF svgRequest.geoJSON.isNil
       THEN /\ out' = [out EXCEPT !.svg = EmptyString]
            /\ UNCHANGED <<request, svgRequest, pc>>
       ELSE LET id == idPrefix(request)
                withIDs == setFeatureIDs(svgRequest.geoJSON.Features, id \o "-")
                withClass == setClassProperty(withIDs, RegionClassName)
            IN  IF setChoroplethColoursAndTitlesPanics(request)
                THEN /\ pc' = PanicIn("RenderSVG")
                     /\ svgRequest' = [svgRequest EXCEPT !.geoJSON.Features = withClass]
                     /\ UNCHANGED <<request, out>>
                ELSE \E breaks \in sortBreaks(request.Choropleth.Breaks, FALSE) :
                        LET features == setChoroplethColoursAndTitles(withClass, request, breaks)
                        IN  /\ svgRequest' = [svgRequest EXCEPT !.geoJSON.Features = features]
                            /\ out' = [out EXCEPT
                                         !.svg = mapSVG(svgRequest, request, features,
                                                        pngConverter)]
                            /\ request' = [request EXCEPT
                                              !.Choropleth.Breaks = breaksAfterSort(@, breaks)]
                            /\ UNCHANGED pc
    /\ UNCHANGED <<pngConverter, response, parked>>

\* RenderSVG (svg.go:99-130), called on an SVGRequest for the first time
RenderSVG ==
    /\ ~out.svg.done
    /\ RenderSVGCall

\* RenderSVG has been called once on the SVGRequest and has returned a map
RenderedOnce ==
    /\ out.svg.done
    /\ ~out.svg.empty
    /\ \A i \in 1..Len(svgRequest.geoJSON.Features) :
          svgRequest.geoJSON.Features[i].class.v = RegionClassName

\* RenderSVG (svg.go:99-130), called a second time on the same SVGRequest
RenderSVGAgain ==
    /\ RenderedOnce
    /\ RenderSVGCall

\* RenderHorizontalKey (svg.go:253-305)
RenderHorizontalKey ==
    /\ pc = "prepared"
    /\ ~out.horizontal.done
    /\ IF svgRequest.geoJSON.isNil
       THEN out' = [out EXCEPT !.horizontal = EmptyString] /\ UNCHANGED pc
       ELSE IF keyPanics(svgRequest, request)
       THEN pc' = PanicIn("RenderHorizontalKey") /\ UNCHANGED out
       ELSE /\ out' = [out EXCEPT
                         !.horizontal = horizontalKey(svgRequest, request, pngConverter)]
            /\ UNCHANGED pc
    /\ UNCHANGED <<request, pngConverter, svgRequest, response, parked>>

\* RenderVerticalKey (svg.go:308-367)
RenderVerticalKey ==
    /\ pc = "prepared"
    /\ ~out.vertical.done
    /\ IF svgRequest.geoJSON.isNil
       THEN out' = [out EXCEPT !.vertical = EmptyString] /\ UNCHANGED pc
       ELSE IF keyPanics(svgRequest, request)
       THEN pc' = PanicIn("RenderVerticalKey") /\ UNCHANGED out
       ELSE /\ out' = [out EXCEPT
                         !.vertical = verticalKey(svgRequest, request, pngConverter)]
            /\ UNCHANGED pc
    /\ UNCHANGED <<request, pngConverter, svgRequest, response, parked>>

Next ==
    \/ \E p \in Converters \cup {NoConverter} : UsePNGConverter(p)
    \/ PrepareSVGRequest
    \/ RenderSVG
    \/ RenderHorizontalKey
    \/ RenderVerticalKey

Spec == Init /\ [][Next]_vars

SpecBreaks == InitBreaks /\ [][Next]_vars

\* the process as it is meant to be run: the converter is configured at
\* start-up only, before any request is served
UsePNGConverterAtStartup(p) ==
    /\ pc = "new"
    /\ \A k \in 1..Len(parked) : parked[k].pc = "new"
    /\ UsePNGConverter(p)

NextStartup ==
    \/ \E p \in Converters \cup {NoConverter} : UsePNGConverterAtStartup(p)
    \/ PrepareSVGRequest
    \/ RenderSVG
    \/ RenderHorizontalKey
    \/ RenderVerticalKey

SpecStartup == Init /\ [][NextStartup]_vars

\* an SVGRequest may be rendered twice
InitRepeat ==
    /\ request \in
         {RequestOf(g, d, c, <<0, 0, 0>>, png) :
            g \in {OneFeature, ThreeFeatures},
            d \in {NoData} \cup DataLists({"E1"}, {2}, 1),
            c \in {NoChoropleth,
                   ChoroplethOf(CHOOSE b \in BreakLists({0, 2}, 2) :
                                   Len(b) = 2 /\ b[1].LowerBound = 0
                                   /\ b[2].LowerBound = 2, 0)},
            png \in BOOLEAN}
    /\ InitState
    /\ parked = <<>>

NextRepeat ==
    \/ \E p \in Converters \cup {NoConverter} : UsePNGConverterAtStartup(p)
    \/ PrepareSVGRequest
    \/ RenderSVG
    \/ RenderSVGAgain
    \/ RenderHorizontalKey
    \/ RenderVerticalKey

SpecRepeat == InitRepeat /\ [][NextRepeat]_vars

----------------------------------------------------------------------------
(* The keys' two reads of pngConverter, with UsePNGConverter running
   concurrently *)

\* the call of a method of a nil PNGConverter
NilConverterCall == PanicIn("pngConverter.IncludeFallbackImage")

\* RenderHorizontalKey up to its test of pngConverter (svg.go:253-303): the
\* svg is returned as it is (svg.go:302), or the converter is about to be
\* called
RenderHorizontalKeyTest ==
    /\ pc = "prepared"
    /\ ~out.horizontal.done
    /\ IF svgRequest.geoJSON.isNil
       THEN out' = [out EXCEPT !.horizontal = EmptyString] /\ UNCHANGED pc
       ELSE IF keyPanics(svgRequest, request)
       THEN pc' = PanicIn("RenderHorizontalKey") /\ UNCHANGED out
       ELSE IF pngConverter = NoConverter \/ request.IncludeFallbackPng = FALSE
       THEN /\ out' = [out EXCEPT
                         !.horizontal = horizontalKey(svgRequest, request, NoConverter)]
            /\ UNCHANGED pc
       ELSE pc' = "RenderHorizontalKey:304" /\ UNCHANGED out
    /\ UNCHANGED <<request, pngConverter, svgRequest, response, parked>>

\* RenderHorizontalKey's call pngConverter.IncludeFallbackImage (svg.go:304),
\* which reads the variable again
RenderHorizontalKeyConvert ==
    /\ pc = "RenderHorizontalKey:304"
    /\ IF pngConverter = NoConverter
       THEN pc' = NilConverterCall /\ UNCHANGED out
       ELSE /\ out' = [out EXCEPT
                         !.horizontal = horizontalKey(svgRequest, request, pngConverter)]
            /\ pc' = "prepared"
    /\ UNCHANGED <<request, pngConverter, svgRequest, response, parked>>

\* RenderVerticalKey up to its test of pngConverter (svg.go:308-365)
RenderVerticalKeyTest ==
    /\ pc = "prepared"
    /\ ~out.vertical.done
    /\ IF svgRequest.geoJSON.isNil
       THEN out' = [out EXCEPT !.vertical = EmptyString] /\ UNCHANGED pc
       ELSE IF keyPanics(svgRequest, request)
       THEN pc' = PanicIn("RenderVerticalKey") /\ UNCHANGED out
       ELSE IF pngConverter = NoConverter \/ request.IncludeFallbackPng = FALSE
       THEN /\ out' = [out EXCEPT
                         !.vertical = verticalKey(svgRequest, request, NoConverter)]
            /\ UNCHANGED pc
       ELSE pc' = "RenderVerticalKey:366" /\ UNCHANGED out
    /\ UNCHANGED <<request, pngConverter, svgRequest, response, parked>>

\* RenderVerticalKey's call pngConverter.IncludeFallbackImage (svg.go:366)
RenderVerticalKeyConvert ==
    /\ pc = "RenderVerticalKey:366"
    /\ IF pngConverter = NoConverter
       THEN pc' = NilConverterCall /\ UNCHANGED out
       ELSE /\ out' = [out EXCEPT
                         !.vertical = verticalKey(svgRequest, request, pngConverter)]
            /\ pc' = "prepared"
    /\ UNCHANGED <<request, pngConverter, svgRequest, response, parked>>

InitRace ==
    /\ request \in
         {RequestOf(g, d, c, <<0, 0, 0>>, png) :
            g \in {NoGeography, OneFeature},
            d \in DataLists({"E1"}, {2}, 1),
            c \in {NoChoropleth,
                   ChoroplethOf(CHOOSE b \in BreakLists({0, 2}, 2) :
                                   Len(b) = 2 /\ b[1].LowerBound = 0
                                   /\ b[2].LowerBound = 2, 0)},
            png \in BOOLEAN}
    /\ InitState
    /\ parked = <<>>

NextRace ==
    \/ \E p \in Converters \cup {NoConverter} : UsePNGConverter(p)
    \/ PrepareSVGRequest
    \/ RenderSVG
    \/ RenderHorizontalKeyTest
    \/ RenderHorizontalKeyConvert
    \/ RenderVerticalKeyTest
    \/ RenderVerticalKeyConvert

SpecRace == InitRace /\ [][NextRace]_vars

\* two requests served at the same time, each by its own invocation: the
\* second request has its own filename, topology and widths
SecondRequests ==
    {[RequestOf(g, d, c, w, png) EXCEPT !.Filename = "fig2"] :
        g \in {NoGeography, OneFeature},
        d \in DataLists({"E1"}, {0}, 1),
        c \in {NoChoropleth, ChoroplethOf(CHOOSE b \in BreakLists({-1, 0}, 2) :
                                             Len(b) = 2 /\ b[1].LowerBound = -1
                                             /\ b[2].LowerBound = 0, 1)},
        w \in {<<0, 200, 600>>},
        png \in {TRUE}}

FirstRequests ==
    {RequestOf(g, d, c, w, png) :
        g \in {ThreeFeatures},
        d \in {NoData} \cup DataLists({"E1"}, {2}, 1),
        c \in {ChoroplethOf(CHOOSE b \in BreakLists({0, 2}, 2) :
                               Len(b) = 2 /\ b[1].LowerBound = 0
                               /\ b[2].LowerBound = 2, 0)},
        w \in {<<300, 0, 0>>},
        png \in BOOLEAN}

InitConcurrent ==
    /\ request \in FirstRequests
    /\ InitState
    /\ parked \in {<<Invocation(r)>> : r \in SecondRequests}

\* the scheduler suspends the running invocation and resumes another one;
\* each keeps its own request, SVGRequest, position and fragments
Switch ==
    /\ parked # <<>>
    /\ request' = Head(parked).request
    /\ svgRequest' = Head(parked).svgRequest
    /\ pc' = Head(parked).pc
    /\ out' = Head(parked).out
    /\ parked' = Append(Tail(parked),
                        [request |-> request, svgRequest |-> svgRequest,
                         pc |-> pc, out |-> out])
    /\ UNCHANGED <<pngConverter, response>>

NextConcurrent ==
    \/ \E p \in Converters \cup {NoConverter} : UsePNGConverterAtStartup(p)
    \/ PrepareSVGRequest
    \/ RenderSVG
    \/ RenderHorizontalKey
    \/ RenderVerticalKey
    \/ Switch

SpecConcurrent == InitConcurrent /\ [][NextConcurrent]_vars

----------------------------------------------------------------------------
(* The HTTP boundary: POST /render/{render_type} *)

StatusOK == 200
StatusBadRequest == 400
StatusNotFound == 404

\* the render types the route is requested with
RenderTypes == {"svg", "png", "foo"}

\* the handler of /render/{render_type}: an unknown render type and a body
\* that is not JSON are rejected and the renderer is not called; otherwise the
\* request is accepted (status 0 until the response is written) and rendered
renderMap(renderType, wellFormed) ==
    /\ pc = "new"
    /\ response = NoResponse
    /\ \E status \in {StatusNotFound, StatusBadRequest, 0} :
          /\ status = StatusNotFound => renderType \notin {"svg", "png"}
          /\ status = StatusBadRequest => ~wellFormed
          /\ status = 0 => renderType \in {"svg", "png"} /\ wellFormed
          /\ response' = [renderType |-> renderType,
                          wellFormed |-> wellFormed,
                          status |-> status,
                          body |-> IF status = StatusNotFound
                                   THEN "Unknown render type\n" ELSE "",
                          figure |-> <<>>]
          /\ pc' = IF status = 0 THEN pc ELSE "rejected"
    /\ UNCHANGED <<request, pngConverter, svgRequest, out, parked>>

\* the parts of the figure, in document order: the legends positioned before
\* the map, horizontal first, then the map, then the legends positioned after
\* it
figureParts(req) ==
    LET legends(position) ==
            (IF hasHorizontalLegend(req)
                 /\ req.Choropleth.HorizontalLegendPosition = position
             THEN <<"horizontal">> ELSE <<>>)
            \o (IF hasVerticalLegend(req)
                    /\ req.Choropleth.VerticalLegendPosition = position
                THEN <<"vertical">> ELSE <<>>)
    IN  legends(LegendPositionBefore) \o <<"map">> \o legends(LegendPositionAfter)

\* the handler writes the rendered figure: the map, and each legend the
\* request positions
writeResponse ==
    /\ response.renderType # ""
    /\ response.status = 0
    /\ pc = "prepared"
    /\ out.svg.done
    /\ hasHorizontalLegend(request) => out.horizontal.done
    /\ hasVerticalLegend(request) => out.vertical.done
    /\ response' = [response EXCEPT !.status = StatusOK,
                                     !.body = "text/html",
                                     !.figure = figureParts(request)]
    /\ UNCHANGED <<request, pngConverter, svgRequest, pc, out, parked>>

\* requests that arrive over HTTP
InitAPI ==
    /\ request \in
         {RequestOf(g, d, c, <<0, 0, 0>>, png) :
            g \in {NoGeography, OneFeature},
            d \in DataLists({"E1"}, {0}, 1),
            c \in {NoChoropleth} \cup {ChoroplethOf(b, 0) : b \in FewBreakLists},
            png \in BOOLEAN}
    /\ InitState
    /\ parked = <<>>

NextAPI ==
    \/ \E p \in Converters \cup {NoConverter} : UsePNGConverterAtStartup(p)
    \/ \E t \in RenderTypes, wellFormed \in BOOLEAN : renderMap(t, wellFormed)
    \/ PrepareSVGRequest
    \/ RenderSVG
    \/ RenderHorizontalKey
    \/ RenderVerticalKey
    \/ writeResponse

SpecAPI == InitAPI /\ [][NextAPI]_vars

\* requests that vary the positions of the two legends
LegendPositions == {LegendPositionBefore, LegendPositionAfter, "none", "", "left"}

InitLegends ==
    /\ request \in
         {RequestOf(OneFeature, d, NoChoropleth, <<0, 0, 0>>, FALSE) :
            d \in DataLists({"E1"}, {2}, 1)}
         \cup
         {RequestOf(OneFeature, d,
                    [ChoroplethOf(CHOOSE b \in BreakLists({0, 2}, 2) :
                                     Len(b) = 2 /\ b[1].LowerBound = 0
                                     /\ b[2].LowerBound = 2, 0)
                        EXCEPT !.HorizontalLegendPosition = h,
                               !.VerticalLegendPosition = v],
                    <<0, 0, 0>>, FALSE) :
            d \in DataLists({"E1"}, {2}, 1) \ {[isNil |-> FALSE, rows |-> <<>>]},
            h \in LegendPositions,
            v \in LegendPositions}
    /\ InitState
    /\ parked = <<>>

SpecLegends == InitLegends /\ [][NextAPI]_vars

----------------------------------------------------------------------------
(* The classification engine: POST /analyse *)

\* breaks are calculated for every class count from 2 to 11
MinClassCount == 2
MaxClassCount == 11

RECURSIVE SortAscending(_)
SortAscending(values) ==
    IF values = <<>> THEN <<>>
    ELSE LET k == CHOOSE i \in 1..Len(values) :
                      \A j \in 1..Len(values) : values[i] <= values[j]
         IN  <<values[k]>> \o SortAscending(RemoveAt(values, k))

DistinctValues(values) == {values[i] : i \in 1..Len(values)}

RECURSIVE SumOfValues(_, _, _)
SumOfValues(sorted, i, j) ==
    IF i > j THEN 0 ELSE sorted[i] + SumOfValues(sorted, i + 1, j)

RECURSIVE SumOfSquares(_, _, _)
SumOfSquares(sorted, i, j) ==
    IF i > j THEN 0 ELSE sorted[i] * sorted[i] + SumOfSquares(sorted, i + 1, j)

\* the sum of squared deviations of sorted[i..j] from their mean
squaredDeviations(sorted, i, j) ==
    LET m == j - i + 1
        sum == SumOfValues(sorted, i, j)
    IN  Fin(m * SumOfSquares(sorted, i, j) - sum * sum, m)

\* the best partition of the first j sorted values into k contiguous classes:
\* its cost and the index at which each class after the first starts
RECURSIVE bestPartition(_, _, _)
bestPartition(sorted, j, k) ==
    IF k = 1
    THEN [cost |-> squaredDeviations(sorted, 1, j), cuts |-> <<>>]
    ELSE LET starts == {i \in k..j :
                          /\ sorted[i - 1] < sorted[i]
                          /\ Cardinality({sorted[x] : x \in 1..(i - 1)}) >= k - 1}
             candidates ==
                 {LET rest == bestPartition(sorted, i - 1, k - 1)
                  IN  [cost |-> FAdd(rest.cost, squaredDeviations(sorted, i, j)),
                       cuts |-> Append(rest.cuts, i)] : i \in starts}
         IN  CHOOSE c \in candidates :
                 \A d \in candidates : ~FLess(d.cost, c.cost)

\* the k - 1 breakpoints of the best k classes: the least value of each class
\* after the first
naturalBreaks(sorted, k) ==
    LET best == bestPartition(sorted, Len(sorted), k)
    IN  [c \in 1..(k - 1) |-> sorted[best.cuts[c]]]

\* the class counts that can be computed for the values
classCounts(values) ==
    {k \in MinClassCount..MaxClassCount : k <= Cardinality(DistinctValues(values))}

analyseBreaksForEveryClassCount(values) ==
    [i \in 1..(MaxClassCount - MinClassCount + 1) |->
        IF i + MinClassCount - 1 \in classCounts(values)
        THEN naturalBreaks(SortAscending(values), i + MinClassCount - 1)
        ELSE <<>>]

\* one array of breaks per computable class count, fewest classes first
analyseBreaks(values) ==
    [i \in 1..Cardinality(classCounts(values)) |->
        naturalBreaks(SortAscending(values), i + MinClassCount - 1)]

InsufficientValues ==
    [level |-> "warn", text |-> "too few distinct values for every class count"]

analyseMessages(values) ==
    IF Cardinality(DistinctValues(values)) < MaxClassCount
    THEN <<InsufficientValues>> ELSE <<>>

\* the handler of /analyse
analyseData ==
    /\ response.status = 0
    /\ response.renderType = ""
    /\ LET sorted == SortAscending(request.CSV)
       IN  response' = [renderType |-> "analyse",
                        wellFormed |-> TRUE,
                        status |-> StatusOK,
                        body |-> [data |-> request.CSV,
                                  messages |-> analyseMessages(request.CSV),
                                  breaks |-> analyseBreaks(request.CSV),
                                  min_value |-> sorted[1],
                                  max_value |-> sorted[Len(sorted)]],
                        figure |-> <<>>]
    /\ UNCHANGED <<request, pngConverter, svgRequest, pc, out, parked>>

\* the longest short value column, and the long columns
MaxColumn == 4
KnownColumn == <<1, 2, 3, 4, 5, 10, 11, 12, 50, 51>>
LongColumns == {KnownColumn,
                <<30, 1, 2, 3, 22, 4, 5, 10, 11, 12, 20, 21>>,
                <<7, 1, 2, 3, 4, 5, 6, 7, 8, 9, 10, 11, 1>>}

AnalyseRequests ==
    {[Geography |-> OneFeature, CSV |-> column] :
        column \in (SeqsUpTo({1, 2, 3, 5}, MaxColumn) \ {<<>>}) \cup LongColumns}

InitAnalyse ==
    /\ request \in AnalyseRequests
    /\ InitState
    /\ parked = <<>>

NextAnalyse == analyseData

SpecAnalyse == InitAnalyse /\ [][NextAnalyse]_vars

----------------------------------------------------------------------------
(* Requests that vary the reference value, its label and the width *)

ReferenceValues == {0, 1, 2, 10}
ReferenceTexts == {"", "x", "av", "UK average"}
ReferenceWidths == {70, 100, 300}

InitReference ==
    /\ request \in
         {RequestOf(OneFeature, d,
                    [ChoroplethOf(CHOOSE b \in BreakLists({0, 2}, 2) :
                                     Len(b) = 2 /\ b[1].LowerBound = 0
                                     /\ b[2].LowerBound = 2, ub)
                        EXCEPT !.ReferenceValue = rv, !.ReferenceValueText = rt],
                    <<w, 0, 0>>, FALSE) :
            d \in DataLists({"E1"}, {0, 2}, 1) \ {[isNil |-> FALSE, rows |-> <<>>]},
            ub \in {0, 4, 20},
            rv \in ReferenceValues,
            rt \in ReferenceTexts,
            w \in ReferenceWidths}
    /\ InitState
    /\ parked = <<>>

SpecReference == InitReference /\ [][Next]_vars

----------------------------------------------------------------------------
(* Properties *)

\* the features as decoded, before RenderSVG touches them
Decoded == getGeoJSON(request).Features

\* the id a data row has to carry to match the feature: its id property,
\* else its own id; "" when it has neither
FeatureKey(feature) == IF feature.idProp # "" THEN feature.idProp ELSE feature.ID

\* the data rows of the request that carry the id of the i-th feature
RowsOf(i) ==
    {k \in 1..Len(request.Data.rows) :
        FeatureKey(Decoded[i]) # "" /\ request.Data.rows[k].ID = FeatureKey(Decoded[i])}

\* the value of the i-th feature: that of the last row carrying its id
ValueOf(i) == request.Data.rows[CHOOSE k \in RowsOf(i) : \A j \in RowsOf(i) : j <= k].Value

\* a style put in front of the style the i-th feature was decoded with
StyleOf(i, style) ==
    IF Decoded[i].style.exists THEN style \o " " \o Decoded[i].style.v ELSE style

\* RenderSVG has returned a map
MapRendered == out.svg.done /\ ~out.svg.empty

\* PrepareSVGRequest has returned break info
BreaksPrepared == pc # "new" /\ pc # PanicIn("PrepareSVGRequest") /\ Len(svgRequest.breaks) > 0

\* the colours of the breaks with the greatest lower bound <= v, or of the
\* breaks with the least lower bound when v is below every lower bound
ClassColours(v, breaks) ==
    LET idx == 1..Len(breaks)
        below == {i \in idx : breaks[i].LowerBound <= v}
    IN  IF below # {}
        THEN {breaks[i].Colour : i \in {j \in below :
                  \A m \in below : breaks[m].LowerBound <= breaks[j].LowerBound}}
        ELSE {breaks[i].Colour : i \in {j \in idx :
                  \A m \in idx : breaks[j].LowerBound <= breaks[m].LowerBound}}

\* C1: every region with a data row is filled with the colour of the break
\* with the greatest lower bound <= its value (a value equal to a lower bound
\* takes that break's colour), or of the break with the least lower bound when
\* the value is below every lower bound.
C1_ColourOfGreatestLowerBound ==
    MapRendered /\ request.Choropleth.present /\ ~request.Data.isNil =>
        \A i \in 1..Len(Decoded) :
            RowsOf(i) # {} =>
                \E c \in ClassColours(ValueOf(i), request.Choropleth.Breaks) :
                    out.svg.regions[i].style = StyleOf(i, "fill: " \o c \o ";")

\* C1 witness: a map whose first region has a value equal to the lower bound
\* of a break that lies between two other breaks, and is filled with that
\* break's colour
C1_Witness ==
    /\ MapRendered
    /\ RowsOf(1) # {}
    /\ \E i, j, k \in 1..Len(request.Choropleth.Breaks) :
          /\ request.Choropleth.Breaks[i].LowerBound < request.Choropleth.Breaks[j].LowerBound
          /\ request.Choropleth.Breaks[j].LowerBound < request.Choropleth.Breaks[k].LowerBound
          /\ request.Choropleth.Breaks[j].LowerBound = ValueOf(1)
          /\ out.svg.regions[1].style = "fill: " \o request.Choropleth.Breaks[j].Colour \o ";"

\* C2 as claimed: the fixed width if > 0, else the average of min_width and
\* max_width only if both are > 0, else 400.
C2_AverageOnlyIfBoth ==
    pc = "prepared" /\ ~svgRequest.geoJSON.isNil =>
        svgRequest.ViewBoxWidth =
            IF request.DefaultWidth > 0 THEN request.DefaultWidth
            ELSE IF request.MinWidth > 0 /\ request.MaxWidth > 0
                 THEN (request.MinWidth + request.MaxWidth) \div 2
                 ELSE 400

\* C2 amended: the fixed width if > 0, else the average of min_width and
\* max_width if that average is > 0 (half of the one given when only one is),
\* else 400.
C2_WidthResolution ==
    pc = "prepared" /\ ~svgRequest.geoJSON.isNil =>
        /\ request.DefaultWidth > 0 => svgRequest.ViewBoxWidth = request.DefaultWidth
        /\ request.DefaultWidth <= 0 /\ request.MinWidth + request.MaxWidth > 0 =>
              2 * svgRequest.ViewBoxWidth = request.MinWidth + request.MaxWidth
        /\ request.DefaultWidth <= 0 /\ request.MinWidth + request.MaxWidth <= 0 =>
              svgRequest.ViewBoxWidth = 400

\* C2 witness: no fixed width, only max_width given, and the width is half
\* of it
C2_Witness ==
    /\ pc = "prepared"
    /\ ~svgRequest.geoJSON.isNil
    /\ request.DefaultWidth <= 0
    /\ request.MinWidth = 0
    /\ request.MaxWidth > 0
    /\ 2 * svgRequest.ViewBoxWidth = request.MaxWidth

\* C3: with nothing to decode no function fails, the viewbox stays 0 x 0 and
\* every fragment rendered is the empty string.
C3_NoMapWithoutTopology ==
    getGeoJSON(request).isNil =>
        /\ pc \in {"new", "prepared"}
        /\ svgRequest.ViewBoxWidth = 0
        /\ svgRequest.ViewBoxHeight = 0
        /\ out.svg.empty
        /\ out.horizontal.empty
        /\ out.vertical.empty

\* C4: with a decodable topology, a choropleth without breaks and at least
\* one data row, neither PrepareSVGRequest nor RenderSVG fails.
C4_NoBreaksDegrades ==
    /\ ~getGeoJSON(request).isNil
    /\ request.Choropleth.present
    /\ Len(request.Choropleth.Breaks) = 0
    /\ Len(request.Data.rows) >= 1
    => pc \notin {PanicIn("PrepareSVGRequest"), PanicIn("RenderSVG")}

\* C5: scenario A: one feature, one break and one data row matching the
\* feature: PrepareSVGRequest and RenderSVG do not fail, and the region
\* rendered is filled with the break's colour, not the missing-data pattern.
C5_ScenarioA ==
    /\ Len(Decoded) = 1
    /\ request.Choropleth.present
    /\ Len(request.Choropleth.Breaks) = 1
    /\ Len(request.Data.rows) = 1
    /\ RowsOf(1) # {}
    => /\ pc \notin {PanicIn("PrepareSVGRequest"), PanicIn("RenderSVG")}
       /\ MapRendered =>
             out.svg.regions[1].style =
                 StyleOf(1, "fill: " \o request.Choropleth.Breaks[1].Colour \o ";")

\* the sum of the relative sizes of the break info, as the float sum
RECURSIVE SumRelativeSize(_)
SumRelativeSize(info) ==
    IF info = <<>> THEN FInt(0)
    ELSE FAdd(Quotient(Head(info).RelativeSize), SumRelativeSize(Tail(info)))

\* the breaks of the request have pairwise different lower bounds
DistinctLowerBounds ==
    \A i, j \in 1..Len(request.Choropleth.Breaks) :
        i # j => request.Choropleth.Breaks[i].LowerBound
                    # request.Choropleth.Breaks[j].LowerBound

\* C6: for breaks with different lower bounds and one or more data rows, the
\* relative sizes of the break info returned sum to 1.
C6_RelativeSizesSumToOne ==
    BreaksPrepared /\ DistinctLowerBounds =>
        SumRelativeSize(svgRequest.breaks) = FInt(1)

\* the least and greatest of a non-empty set of integers
Least(S) == CHOOSE x \in S : \A y \in S : x <= y
Greatest(S) == CHOOSE x \in S : \A y \in S : x >= y

DataValues == {request.Data.rows[k].Value : k \in 1..Len(request.Data.rows)}
LowerBounds == {request.Choropleth.Breaks[k].LowerBound :
                    k \in 1..Len(request.Choropleth.Breaks)}

C8_DefaultUpperBoundIsDataMax ==
    BreaksPrepared /\ DistinctLowerBounds /\ request.Choropleth.UpperBound = 0 =>
        svgRequest.breaks[Len(svgRequest.breaks)].UpperBound = Greatest(DataValues)


\* the fill and the title RenderSVG is to give the i-th region: those of its
\* data row if it has one, else the missing-data ones
ChoroplethApplied(i) ==
    IF RowsOf(i) = {}
    THEN /\ out.svg.regions[i].style =
               StyleOf(i, "fill: url(#" \o idPrefix(request) \o "-nodata);")
         /\ out.svg.regions[i].title = Decoded[i].name \o " " \o "data unavailable"
    ELSE /\ \E c \in ClassColours(ValueOf(i), request.Choropleth.Breaks) :
               out.svg.regions[i].style = StyleOf(i, "fill: " \o c \o ";")
         /\ out.svg.regions[i].title =
               Decoded[i].name \o " " \o request.Choropleth.ValuePrefix
                   \o ToString(ValueOf(i)) \o request.Choropleth.ValueSuffix

\* the i-th region is rendered with the style and the title it was decoded
\* with
ChoroplethNotApplied(i) ==
    /\ out.svg.regions[i].style = Decoded[i].style.v
    /\ out.svg.regions[i].title = Decoded[i].name

\* C9 as claimed: in a map rendered for a request with a choropleth every
\* region has the fill and title of its data row or the missing-data fill and
\* title, also when the data list is absent.
C9_EveryRegionStyled ==
    MapRendered /\ request.Choropleth.present =>
        \A i \in 1..Len(Decoded) : ChoroplethApplied(i)

\* C9 amended: in a map rendered for a request with a choropleth and a data
\* list (possibly empty) every region has the fill and title of its data row
\* or the missing-data fill and title; when the data list is absent every
\* region keeps the style and title it was decoded with.
C9_EveryRegionStyledGivenData ==
    MapRendered /\ request.Choropleth.present =>
        \A i \in 1..Len(Decoded) :
            IF request.Data.isNil THEN ChoroplethNotApplied(i) ELSE ChoroplethApplied(i)

\* C9 witness: a map with a region that has a data row and a region that has
\* none, the second one filled with the missing-data pattern
C9_Witness ==
    /\ MapRendered
    /\ request.Choropleth.present
    /\ ~request.Data.isNil
    /\ \E i, j \in 1..Len(Decoded) :
          /\ RowsOf(i) # {}
          /\ RowsOf(j) = {}
          /\ out.svg.regions[j].style =
                StyleOf(j, "fill: url(#" \o idPrefix(request) \o "-nodata);")

\* the rows of the request whose id is the id of no feature
UnmatchedRows ==
    {k \in 1..Len(request.Data.rows) :
        \A i \in 1..Len(Decoded) :
            FeatureKey(Decoded[i]) = "" \/ request.Data.rows[k].ID # FeatureKey(Decoded[i])}

\* the request without its k-th data row
WithoutRow(k) == [request EXCEPT !.Data.rows = RemoveAt(@, k)]

\* info and pos are break info and a reference position with the same
\* bounds, relative sizes and position as the prepared ones
SameLegend(info, pos) ==
    /\ Len(info) = Len(svgRequest.breaks)
    /\ \A i \in 1..Len(info) :
          /\ info[i].LowerBound = svgRequest.breaks[i].LowerBound
          /\ info[i].UpperBound = svgRequest.breaks[i].UpperBound
          /\ Quotient(info[i].RelativeSize) = Quotient(svgRequest.breaks[i].RelativeSize)
    /\ Quotient(pos) = Quotient(svgRequest.referencePos)

\* C10: a data row whose id is the id of no feature changes nothing: the
\* legend's bounds, relative sizes and reference position, and the regions'
\* fills and titles, are those of the request without the row (where the
\* request without the row has a legend).
C10_UnmatchedRowIgnored ==
    DistinctLowerBounds =>
        \A k \in UnmatchedRows :
            /\ BreaksPrepared /\ ~getSortedBreakInfoPanics(WithoutRow(k)) =>
                  \E b \in sortBreaks(request.Choropleth.Breaks, TRUE) :
                      SameLegend(getSortedBreakInfo(WithoutRow(k), b),
                                 getReferencePos(WithoutRow(k), b))
            /\ MapRendered =>
                  \E b \in sortBreaks(request.Choropleth.Breaks, FALSE) :
                      out.svg.regions =
                          mapSVG(svgRequest, request,
                                 setChoroplethColoursAndTitles(
                                     setClassProperty(
                                         setFeatureIDs(Decoded, idPrefix(request) \o "-"),
                                         RegionClassName),
                                     WithoutRow(k), b),
                                 pngConverter).regions

\* C11: with the converter configured at start-up only, every fragment
\* rendered (the map and both keys) is handed to the converter if and only if
\* a converter is configured and the request asks for the fallback png, and is
\* plain svg markup otherwise; the three fragments of a request agree.
C11_ConverterIffConfiguredAndRequested ==
    LET wanted == pngConverter # NoConverter /\ request.IncludeFallbackPng
    IN  /\ out.svg.done /\ ~out.svg.empty => out.svg.png = wanted
        /\ out.horizontal.done /\ ~out.horizontal.empty => out.horizontal.png = wanted
        /\ out.vertical.done /\ ~out.vertical.empty => out.vertical.png = wanted

\* C11 witness: a configured converter, a request without the fallback flag,
\* and three fragments rendered as plain svg
C11_Witness ==
    /\ pngConverter # NoConverter
    /\ ~request.IncludeFallbackPng
    /\ out.svg.done /\ ~out.svg.empty /\ ~out.svg.png
    /\ out.horizontal.done /\ ~out.horizontal.empty /\ ~out.horizontal.png
    /\ out.vertical.done /\ ~out.vertical.empty /\ ~out.vertical.png

\* C12: a key is rendered without width and height attributes exactly when
\* both min_width and max_width are > 0, whatever the fixed width is, and
\* otherwise with a width and a height equal to its viewBox.
C12_ResponsiveIffMinAndMax ==
    LET responsive == request.MinWidth > 0 /\ request.MaxWidth > 0
        AsSelected(key) ==
            key.done /\ ~key.empty =>
                key.size = IF responsive THEN <<>> ELSE key.viewBox
    IN  AsSelected(out.horizontal) /\ AsSelected(out.vertical)

\* C12 witness: a fixed width together with min_width and max_width, and both
\* keys rendered without width and height
C12_Witness ==
    /\ request.DefaultWidth > 0
    /\ request.MinWidth > 0
    /\ request.MaxWidth > 0
    /\ out.horizontal.done /\ ~out.horizontal.empty /\ out.horizontal.size = <<>>
    /\ out.vertical.done /\ ~out.vertical.empty /\ out.vertical.size = <<>>

\* RenderHorizontalKey has returned a key
HorizontalKeyRendered == out.horizontal.done /\ ~out.horizontal.empty

\* x <= y for two numbers that are not NaN
AtMost(x, y) == x.kind # "nan" /\ y.kind # "nan" /\ ~FLess(y, x)

\* the estimated width of the label of a bound
BoundLabelWidth(v) == GetApproximateTextWidth(FormatG(v), request.FontSize)

\* C13: in every horizontal key laid out, with xRef the position of the
\* reference tick in the svg, the labels of the two end bounds and the two
\* reference texts lie inside the svg: nothing overhangs on the left or on the
\* right.
C13_LabelsInsideViewBox ==
    HorizontalKeyRendered /\ DistinctLowerBounds /\ svgRequest.referencePos.den # 0 =>
        LET info == out.horizontal.keyInfo
            breaks == svgRequest.breaks
            svgWidth == FInt(svgRequest.ViewBoxWidth)
            xRef == FAdd(info.keyX, FMul(info.keyWidth, Quotient(svgRequest.referencePos)))
            lowHalf == Fin(BoundLabelWidth(breaks[1].LowerBound), 2)
            highHalf == Fin(BoundLabelWidth(breaks[Len(breaks)].UpperBound), 2)
        IN  /\ AtMost(FInt(0), FSub(info.keyX, lowHalf))
            /\ AtMost(FAdd(FAdd(info.keyX, info.keyWidth), highHalf), svgWidth)
            /\ AtMost(FInt(0), FSub(xRef, FInt(info.referenceTextLeftLen)))
            /\ AtMost(FAdd(xRef, FInt(info.referenceTextRightLen)), svgWidth)

\* the SVGRequests PrepareSVGRequest returns for a request run alone
PreparedAlone(req) ==
    LET geoJSON == getGeoJSON(req)
        dims == IF geoJSON.isNil THEN <<0, 0>> ELSE getViewBoxDimensions(req)
        base == [NoSVGRequest EXCEPT !.geoJSON = geoJSON,
                                     !.ViewBoxWidth = dims[1],
                                     !.ViewBoxHeight = dims[2],
                                     !.responsiveSize = responsiveSize(req)]
    IN  IF ~req.Choropleth.present \/ Len(req.Choropleth.Breaks) = 0
        THEN {base}
        ELSE {[base EXCEPT
                 !.breaks = getSortedBreakInfo(req, b),
                 !.referencePos = getReferencePos(req, b),
                 !.VerticalLegendWidth = getVerticalLegendWidth(req, getSortedBreakInfo(req, b))[1],
                 !.verticalKeyOffset = getVerticalLegendWidth(req, getSortedBreakInfo(req, b))[2]] :
              b \in sortBreaks(req.Choropleth.Breaks, TRUE)}

\* the features RenderSVG leaves for a request run alone
RenderedAlone(req) ==
    {setChoroplethColoursAndTitles(
         setClassProperty(setFeatureIDs(getGeoJSON(req).Features, idPrefix(req) \o "-"),
                          RegionClassName),
         req, b) : b \in sortBreaks(req.Choropleth.Breaks, FALSE)}

\* the invocation holds what its request yields when it is the only one
\* running: its SVGRequest and every fragment it has rendered
RunsAlone(inv) ==
    IF inv.pc \in {"new", PanicIn("PrepareSVGRequest")}
    THEN inv.svgRequest = NoSVGRequest /\ inv.out = NoOutput
    ELSE \E alone \in PreparedAlone(inv.request) :
            /\ [inv.svgRequest EXCEPT !.geoJSON.Features = alone.geoJSON.Features] = alone
            /\ inv.out.svg.done =>
                  IF inv.out.svg.empty THEN alone.geoJSON.isNil
                  ELSE \E features \in RenderedAlone(inv.request) :
                          /\ inv.svgRequest.geoJSON.Features = features
                          /\ inv.out.svg = mapSVG(alone, inv.request, features, pngConverter)
            /\ inv.out.horizontal.done =>
                  IF inv.out.horizontal.empty THEN alone.geoJSON.isNil
                  ELSE inv.out.horizontal = horizontalKey(alone, inv.request, pngConverter)
            /\ inv.out.vertical.done =>
                  IF inv.out.vertical.empty THEN alone.geoJSON.isNil
                  ELSE inv.out.vertical = verticalKey(alone, inv.request, pngConverter)

\* the invocation that is running
Running == [request |-> request, svgRequest |-> svgRequest, pc |-> pc, out |-> out]

\* C16: with the converter configured before any render starts, under every
\* interleaving of two invocations on two requests each invocation holds the
\* SVGRequest and the fragments its own request yields when run alone.
C16_InvocationsIndependent ==
    /\ RunsAlone(Running)
    /\ \A k \in 1..Len(parked) : RunsAlone(parked[k])

\* C16 witness: both invocations are in the middle of their renders: each has
\* rendered its map and one of them a key, the other not yet
C16_Witness ==
    /\ parked # <<>>
    /\ out.svg.done /\ ~out.svg.empty
    /\ out.horizontal.done /\ ~out.horizontal.empty
    /\ ~out.vertical.done
    /\ parked[1].out.svg.done /\ ~parked[1].out.svg.empty
    /\ ~parked[1].out.horizontal.done
    /\ parked[1].out.vertical.done /\ ~parked[1].out.vertical.empty

\* the ids of the elements of a fragment: of a map its svg, its pattern and
\* its regions that have an id, of a key its svg, pattern, container and key
MapIds(map) ==
    IF map.done /\ ~map.empty
    THEN <<map.id, map.patternId>>
         \o SelectSeq([i \in 1..Len(map.regions) |-> map.regions[i].id], LAMBDA id : id # "")
    ELSE <<>>

KeyIds(key) ==
    IF key.done /\ ~key.empty
    THEN <<key.id, key.patternId, key.containerId, key.keyId>>
    ELSE <<>>

\* the ids of all the elements an invocation has generated
ElementIds(o) == MapIds(o.svg) \o KeyIds(o.horizontal) \o KeyIds(o.vertical)

\* C14: the element ids generated for one request are pairwise distinct,
\* whatever the ids of its features are, and none of them is an id generated
\* for a request with another filename.
C14_ElementIdsDistinct ==
    LET ids == ElementIds(out)
    IN  /\ \A i, j \in 1..Len(ids) : i # j => ids[i] # ids[j]
        /\ \A k \in 1..Len(parked) :
              parked[k].request.Filename # request.Filename =>
                  \A i \in 1..Len(ids) :
                      \A j \in 1..Len(ElementIds(parked[k].out)) :
                          ids[i] # ElementIds(parked[k].out)[j]

Analysed == response.renderType = "analyse" /\ response.status = StatusOK

DistinctCount == Cardinality(DistinctValues(request.CSV))

C17_AllClassCounts ==
    /\ Analysed
    /\ Len(response.body.breaks) = MaxClassCount - MinClassCount + 1
    /\ Len(response.body.breaks[MaxClassCount - MinClassCount + 1]) = MaxClassCount - 1

\* the two classes of the known column are split at its largest gap
C17_KnownColumnSplit ==
    Analysed /\ request.CSV = KnownColumn => response.body.breaks[1] = <<50>>

\* C18: no step of PrepareSVGRequest, RenderSVG, RenderHorizontalKey or
\* RenderVerticalKey changes the order or the contents of request.Data or of
\* request.Choropleth.Breaks.
C18_RequestImmutable ==
    [][/\ request'.Data = request.Data
       /\ request'.Choropleth.Breaks = request.Choropleth.Breaks]_vars

\* all four functions have returned for a request whose breaks and data rows
\* are both out of order
C18_Witness ==
    /\ pc = "prepared"
    /\ out.svg.done /\ ~out.svg.empty
    /\ out.horizontal.done
    /\ out.vertical.done
    /\ \E i \in 1..(Len(request.Choropleth.Breaks) - 1) :
          request.Choropleth.Breaks[i].LowerBound
              > request.Choropleth.Breaks[i + 1].LowerBound
    /\ \E i \in 1..(Len(request.Data.rows) - 1) :
          request.Data.rows[i].Value > request.Data.rows[i + 1].Value

\* the reference tick of the rendered horizontal key
RefTick == out.horizontal.refTick

RefTickDrawn == HorizontalKeyRendered /\ RefTick.drawn

\* the formatted reference value, the reference label, and their estimated
\* widths
RefValueText == FormatG(request.Choropleth.ReferenceValue)
RefLabelText == request.Choropleth.ReferenceValueText
RefValueWidth == GetApproximateTextWidth(RefValueText, request.FontSize)
RefLabelWidth == GetApproximateTextWidth(RefLabelText, request.FontSize)

\* the longer of the two, the formatted value if the widths are equal, and
\* the other one
LongerRefText == IF RefLabelWidth > RefValueWidth THEN RefLabelText ELSE RefValueText
ShorterRefText == IF RefLabelWidth > RefValueWidth THEN RefValueText ELSE RefLabelText

RefPosBelowHalf == FLess(Quotient(svgRequest.referencePos), Fin(1, 2))
RefPosAtLeastHalf == AtMost(Fin(1, 2), Quotient(svgRequest.referencePos))

\* C19: in the horizontal key the longer of the reference value and the
\* reference label is written left of the reference tick when referencePos is
\* at least 0.5 and right of it when referencePos is below 0.5, the shorter
\* one on the other side; of two equally wide texts the formatted value counts
\* as the longer.
C19_LongerTextOnRoomierSide ==
    RefTickDrawn =>
        /\ RefPosAtLeastHalf =>
              RefTick.textLeft = LongerRefText /\ RefTick.textRight = ShorterRefText
        /\ RefPosBelowHalf =>
              RefTick.textRight = LongerRefText /\ RefTick.textLeft = ShorterRefText

\* equally wide texts with the tick below the middle: the value is on the right
C19_Witness ==
    /\ RefTickDrawn
    /\ RefLabelWidth = RefValueWidth
    /\ RefLabelText # RefValueText
    /\ RefPosBelowHalf
    /\ RefTick.textRight = RefValueText

\* a longer label with the tick at the middle or beyond: the label is on the left
C19_LabelOnLeft ==
    /\ RefTickDrawn
    /\ RefLabelWidth > RefValueWidth
    /\ RefPosAtLeastHalf
    /\ RefTick.textLeft = RefLabelText

\* a longer value with the tick exactly at the middle
C19_ValueOnLeftAtHalf ==
    /\ RefTickDrawn
    /\ RefLabelWidth < RefValueWidth
    /\ Quotient(svgRequest.referencePos) = Fin(1, 2)
    /\ RefTick.textLeft = RefValueText

\* the width of the svg, and 90% and 5% of it
KeySvgWidth == FInt(svgRequest.ViewBoxWidth)
NinetyPercent == FMul(KeySvgWidth, Fin(9, 10))
FivePercent == FMul(KeySvgWidth, Fin(1, 20))

\* the overhang of the texts at the left end of a key of 90%: half the first
\* lower bound's label, or what the text left of the reference tick needs if
\* that is more; and the same at the right end
LeftOverhang ==
    LET info == out.horizontal.keyInfo
        bound == Fin(BoundLabelWidth(svgRequest.breaks[1].LowerBound), 2)
        tick == FMul(NinetyPercent, Quotient(svgRequest.referencePos))
        reach == FSub(tick, FInt(info.referenceTextLeftLen))
    IN  IF FLess(reach, FNeg(bound)) THEN FAbs(reach) ELSE bound

RightOverhang ==
    LET info == out.horizontal.keyInfo
        bound == Fin(BoundLabelWidth(svgRequest.breaks[Len(svgRequest.breaks)].UpperBound), 2)
        tick == FMul(NinetyPercent, Quotient(svgRequest.referencePos))
        reach == FSub(FAdd(tick, FInt(info.referenceTextRightLen)), NinetyPercent)
    IN  IF FGreater(reach, bound) THEN reach ELSE bound

KeyFits ==
    AtMost(FAdd(FAdd(NinetyPercent, LeftOverhang), RightOverhang), KeySvgWidth)

\* C20: the horizontal key is 90% of the svg wide and starts at 5% of it
\* exactly when 0.9 * svgWidth + left + right <= svgWidth; otherwise it is
\* svgWidth - (left + right) wide and starts at left, so it spans
\* [left, svgWidth - right].
C20_KeyWidthAndOrigin ==
    HorizontalKeyRendered =>
        LET info == out.horizontal.keyInfo
        IN  /\ KeyFits <=> info.keyWidth = NinetyPercent /\ info.keyX = FivePercent
            /\ ~KeyFits =>
                  /\ info.keyWidth = FSub(KeySvgWidth, FAdd(LeftOverhang, RightOverhang))
                  /\ info.keyX = LeftOverhang
                  /\ FAdd(info.keyX, info.keyWidth) = FSub(KeySvgWidth, RightOverhang)

\* a key shortened because the texts overhang both ends by different amounts
C20_Witness ==
    /\ HorizontalKeyRendered
    /\ ~KeyFits
    /\ LeftOverhang # RightOverhang
    /\ out.horizontal.keyInfo.keyX = LeftOverhang

\* a key of 90% whose texts reach exactly to the edges of the svg
C20_ExactFit ==
    /\ HorizontalKeyRendered
    /\ FAdd(FAdd(NinetyPercent, LeftOverhang), RightOverhang) = KeySvgWidth
    /\ out.horizontal.keyInfo.keyWidth = NinetyPercent

\* the reference position computed from the bounds of the legend: the first
\* class's lower bound is minValue and the last class's upper bound maxValue
RefPosFromLegend ==
    LET info == svgRequest.breaks
        minValue == info[1].LowerBound
        maxValue == info[Len(info)].UpperBound
    IN  FDiv(request.Choropleth.ReferenceValue - minValue, maxValue - minValue)

\* the horizontal reference tick is drawn exactly when a label is configured,
\* at keyWidth * referencePos for the key's final width
RefTickAtFinalPosition ==
    HorizontalKeyRendered =>
        /\ RefTick.drawn <=> RefLabelText # ""
        /\ RefTick.drawn =>
              RefTick.x = FMul(out.horizontal.keyInfo.keyWidth,
                               Quotient(svgRequest.referencePos))

\* a key that was shortened starts at the left overhang and ends the right
\* overhang before the svg's edge; an overhang that is not half an end
\* bound's label is the one computed for the reference text
KeyShortened == HorizontalKeyRendered /\ out.horizontal.keyInfo.keyX # FivePercent

LeftOverhangUsed == out.horizontal.keyInfo.keyX

RightOverhangUsed ==
    FSub(KeySvgWidth,
         FAdd(out.horizontal.keyInfo.keyX, out.horizontal.keyInfo.keyWidth))

\* C21: referencePos is (referenceValue - minValue) / totalRange; the
\* horizontal reference tick is drawn, only if a label is configured, at
\* keyWidth * referencePos for the final keyWidth; and the overhang that
\* getHorizontalKeyInfo computed for a reference text is that text's reach
\* beyond the key (of 90% of the svg, on the right) measured from that same
\* tick position.
C21_RefTickAndOverflowAgree ==
    /\ BreaksPrepared => Quotient(svgRequest.referencePos) = RefPosFromLegend
    /\ RefTickAtFinalPosition
    /\ KeyShortened /\ RefTick.drawn =>
          LET info == out.horizontal.keyInfo
              first == svgRequest.breaks[1].LowerBound
              last == svgRequest.breaks[Len(svgRequest.breaks)].UpperBound
          IN  /\ LeftOverhangUsed # Fin(BoundLabelWidth(first), 2) =>
                    LeftOverhangUsed
                        = FAbs(FSub(RefTick.x, FInt(info.referenceTextLeftLen)))
              /\ RightOverhangUsed # Fin(BoundLabelWidth(last), 2) =>
                    RightOverhangUsed
                        = FSub(FAdd(RefTick.x, FInt(info.referenceTextRightLen)),
                               NinetyPercent)

\* the part of C21 that the code satisfies
C21_RefPosAndTick ==
    /\ BreaksPrepared => Quotient(svgRequest.referencePos) = RefPosFromLegend
    /\ RefTickAtFinalPosition

\* RenderVerticalKey has returned a key with classes
VerticalKeyRendered ==
    out.vertical.done /\ ~out.vertical.empty /\ Len(svgRequest.breaks) > 0

\* the layout of the vertical key as C22 states it
VerticalKeyStacks ==
    LET key == out.vertical
        keyHeight == key.keyInfo.keyHeight
        info == svgRequest.breaks
        n == Len(info)
    IN  /\ keyHeight = FMul(FInt(svgRequest.ViewBoxHeight), Fin(8, 10))
        /\ \A i \in 1..n :
              /\ key.rects[i].size = FMul(Quotient(info[i].RelativeSize), keyHeight)
              /\ key.rects[i].colour = info[i].Colour
              /\ FAdd(key.rects[i].pos, key.rects[i].size)
                    = (IF i = 1 THEN keyHeight ELSE key.rects[i - 1].pos)
              /\ key.ticks[i].pos = FAdd(key.rects[i].pos, key.rects[i].size)
              /\ key.ticks[i].value = info[i].LowerBound
        /\ key.ticks[n + 1].value = info[n].UpperBound
        /\ key.ticks[n + 1].pos = FInt(0)
        /\ key.refTick.drawn =>
              key.refTick.x
                  = FSub(keyHeight, FMul(keyHeight, Quotient(svgRequest.referencePos)))

\* C22: the vertical key is 80% of the viewbox height high; class i is
\* RelativeSize_i * keyHeight high, the lowest class's bottom edge is at
\* keyHeight, every other class's bottom edge is the top edge of the class
\* before it, the top tick is at 0 and the reference tick at
\* keyHeight - keyHeight * referencePos.
C22_VerticalKeyStacks ==
    VerticalKeyRendered /\ DistinctLowerBounds => VerticalKeyStacks

\* the value range of the legend is not empty
LegendHasRange ==
    svgRequest.breaks[1].LowerBound
        # svgRequest.breaks[Len(svgRequest.breaks)].UpperBound

\* the same for a legend whose value range is not empty
C22_VerticalKeyStacksGivenRange ==
    VerticalKeyRendered /\ LegendHasRange => VerticalKeyStacks

\* a legend is positioned: the request has a choropleth and the position is
\* 'before' or 'after'
Positioned(position) ==
    request.Choropleth.present /\ position \in {"before", "after"}

HorizontalPositioned == Positioned(request.Choropleth.HorizontalLegendPosition)
VerticalPositioned == Positioned(request.Choropleth.VerticalLegendPosition)

\* the class of a legend's svg
LegendClass(type) ==
    IF HorizontalPositioned /\ VerticalPositioned
    THEN "map_key_" \o type \o " map_key_" \o type \o "_both"
    ELSE "map_key_" \o type

FigureWritten == response.renderType \in {"svg", "png"} /\ response.status = StatusOK

FigureHas(part) == \E i \in DOMAIN response.figure : response.figure[i] = part

\* C23: a legend is part of the figure exactly when its position is 'before'
\* or 'after'; a legend's svg has the class map_key_<type>, and also
\* map_key_<type>_both exactly when both legends are positioned; with both
\* positioned 'before' the figure is the horizontal legend, the vertical
\* legend, the map.
C23_LegendPresenceClassAndOrder ==
    /\ HorizontalKeyRendered => out.horizontal.class = LegendClass("horizontal")
    /\ out.vertical.done /\ ~out.vertical.empty =>
          out.vertical.class = LegendClass("vertical")
    /\ FigureWritten =>
          /\ FigureHas("map")
          /\ FigureHas("horizontal") <=> HorizontalPositioned
          /\ FigureHas("vertical") <=> VerticalPositioned
          /\ /\ request.Choropleth.HorizontalLegendPosition = "before"
             /\ request.Choropleth.VerticalLegendPosition = "before"
             /\ request.Choropleth.present
             => response.figure = <<"horizontal", "vertical", "map">>

\* both legends positioned before the map, rendered and written
C23_Witness ==
    /\ FigureWritten
    /\ HorizontalKeyRendered
    /\ VerticalKeyRendered
    /\ request.Choropleth.HorizontalLegendPosition = "before"
    /\ request.Choropleth.VerticalLegendPosition = "before"
    /\ out.horizontal.class = "map_key_horizontal map_key_horizontal_both"
    /\ out.vertical.class = "map_key_vertical map_key_vertical_both"
    /\ response.figure = <<"horizontal", "vertical", "map">>

\* a horizontal legend alone, its position other than 'before' and 'after'
\* for the vertical one
C23_HorizontalAlone ==
    /\ FigureWritten
    /\ HorizontalKeyRendered
    /\ request.Choropleth.VerticalLegendPosition = "left"
    /\ out.horizontal.class = "map_key_horizontal"
    /\ response.figure = <<"map", "horizontal">>

\* C24: a call of RenderSVG on an SVGRequest that has been rendered returns
\* the markup the earlier call returned: every region's id, class, style and
\* title are the same.
C24_RenderSVGIdempotent ==
    [][out.svg.done => out'.svg = out.svg]_vars

\* what a second call leaves of the regions' ids: the same when the id comes
\* from the id property
C24_IdFromPropertyKept ==
    [][out.svg.done =>
          \A i \in DOMAIN out.svg.regions :
              svgRequest.geoJSON.Features[i].idProp # ""
                  => out'.svg.regions[i].id = out.svg.regions[i].id]_vars

\* C25: for breaks with different lower bounds and one or more data rows,
\* every break info returned has LowerBound <= UpperBound and a RelativeSize
\* between 0 and 1, and the range the sizes are divided by is not 0.
C25_BreakInfoWellFormed ==
    BreaksPrepared /\ DistinctLowerBounds =>
        \A i \in 1..Len(svgRequest.breaks) :
            LET b == svgRequest.breaks[i]
            IN  /\ b.LowerBound <= b.UpperBound
                /\ b.RelativeSize.den # 0
                /\ AtMost(FInt(0), Quotient(b.RelativeSize))
                /\ AtMost(Quotient(b.RelativeSize), FInt(1))

\* the same with the greatest data value and the upper bound supplied not
\* below the highest lower bound, and a value range that is not empty
C25_BreakInfoWellFormedGivenMaximum ==
    /\ BreaksPrepared
    /\ DistinctLowerBounds
    /\ LegendHasRange
    /\ \/ request.Choropleth.UpperBound >= Greatest(LowerBounds)
       \/ Greatest(DataValues) >= Greatest(LowerBounds)
    => \A i \in 1..Len(svgRequest.breaks) :
            LET b == svgRequest.breaks[i]
            IN  /\ b.LowerBound <= b.UpperBound
                /\ AtMost(FInt(0), Quotient(b.RelativeSize))
                /\ AtMost(Quotient(b.RelativeSize), FInt(1))

\* C26: for an svg of positive width the horizontal key has a positive
\* width, does not start left of the svg and does not end right of it.
C26_KeyInsideSvg ==
    HorizontalKeyRendered /\ svgRequest.ViewBoxWidth > 0 =>
        LET info == out.horizontal.keyInfo
        IN  /\ FGreater(info.keyWidth, FInt(0))
            /\ AtMost(FInt(0), info.keyX)
            /\ AtMost(FAdd(info.keyX, info.keyWidth), KeySvgWidth)

\* the same for a reference position between 0 and 1
C26_KeyInsideSvgGivenRefInRange ==
    /\ HorizontalKeyRendered
    /\ svgRequest.ViewBoxWidth > 0
    /\ AtMost(FInt(0), Quotient(svgRequest.referencePos))
    /\ AtMost(Quotient(svgRequest.referencePos), FInt(1))
    => LET info == out.horizontal.keyInfo
       IN  /\ FGreater(info.keyWidth, FInt(0))
           /\ AtMost(FInt(0), info.keyX)
           /\ AtMost(FAdd(info.keyX, info.keyWidth), KeySvgWidth)

\* the same for a legend whose value range is not empty
C26_KeyInsideSvgGivenRange ==
    /\ HorizontalKeyRendered
    /\ svgRequest.ViewBoxWidth > 0
    /\ LegendHasRange
    => LET info == out.horizontal.keyInfo
       IN  /\ FGreater(info.keyWidth, FInt(0))
           /\ AtMost(FInt(0), info.keyX)
           /\ AtMost(FAdd(info.keyX, info.keyWidth), KeySvgWidth)

\* the request with another reference value, and the key info that
\* PrepareSVGRequest and getHorizontalKeyInfo yield for it
WithReferenceValue(v) == [request EXCEPT !.Choropleth.ReferenceValue = v]

KeyInfoWithReferenceValue(v) ==
    LET req == WithReferenceValue(v)
        breaks == CHOOSE b \in sortBreaks(req.Choropleth.Breaks, TRUE) : TRUE
        svgReq == [svgRequest EXCEPT !.referencePos = getReferencePos(req, breaks)]
    IN  getHorizontalKeyInfo(svgRequest.ViewBoxWidth, svgReq, req)

\* C27: without a reference label the horizontal key's width and origin are
\* the same whatever the reference value is.
C27_ReferenceValueIgnoredWithoutLabel ==
    HorizontalKeyRendered /\ RefLabelText = "" =>
        \A v \in ReferenceValues :
            /\ KeyInfoWithReferenceValue(v).keyWidth = out.horizontal.keyInfo.keyWidth
            /\ KeyInfoWithReferenceValue(v).keyX = out.horizontal.keyInfo.keyX

\* the legend classes whose range contains v: LowerBound <= v < UpperBound,
\* or v = UpperBound for the last class
LegendClasses(v) ==
    LET info == svgRequest.breaks
    IN  {k \in 1..Len(info) :
            \/ info[k].LowerBound <= v /\ v < info[k].UpperBound
            \/ k = Len(info) /\ v = info[k].UpperBound}

\* every region whose value lies between the legend's minimum and maximum is
\* filled with the colour of the legend class its value belongs to
MapAgreesWithLegend ==
    LET info == svgRequest.breaks
    IN  \A i \in 1..Len(Decoded) :
            /\ RowsOf(i) # {}
            /\ info[1].LowerBound <= ValueOf(i)
            /\ ValueOf(i) <= info[Len(info)].UpperBound
            => /\ LegendClasses(ValueOf(i)) # {}
               /\ \A k \in LegendClasses(ValueOf(i)) :
                     out.svg.regions[i].style
                         = StyleOf(i, "fill: " \o info[k].Colour \o ";")

\* C28: for breaks with different lower bounds, a region whose value lies
\* between the legend's minimum and maximum has the fill colour of the legend
\* class whose range contains the value.
C28_MapAgreesWithLegend ==
    MapRendered /\ BreaksPrepared /\ DistinctLowerBounds => MapAgreesWithLegend

\* the same when the legend's maximum is not below the highest lower bound
C28_MapAgreesWithLegendGivenMaximum ==
    /\ MapRendered
    /\ BreaksPrepared
    /\ DistinctLowerBounds
    /\ svgRequest.breaks[Len(svgRequest.breaks)].UpperBound >= Greatest(LowerBounds)
    => MapAgreesWithLegend

\* C29: PrepareSVGRequest does not fail on a request whose choropleth has one
\* or more breaks, whether or not it has data rows.
C29_PrepareCompletes ==
    request.Choropleth.present /\ Len(request.Choropleth.Breaks) >= 1 =>
        pc # PanicIn("PrepareSVGRequest")

\* the same for two or more breaks
C29_PrepareCompletesGivenTwoBreaks ==
    request.Choropleth.present /\ Len(request.Choropleth.Breaks) >= 2 =>
        pc # PanicIn("PrepareSVGRequest")

\* the same for two or more breaks and one or more data rows
C29_PrepareCompletesGivenData ==
    /\ request.Choropleth.present
    /\ Len(request.Choropleth.Breaks) >= 2
    /\ Len(request.Data.rows) >= 1
    => pc # PanicIn("PrepareSVGRequest")

\* C30: whatever UsePNGConverter calls run while a key is rendered, the key
\* never calls IncludeFallbackImage on an absent converter.
C30_NoCallOnAbsentConverter == pc # NilConverterCall

============================================================================
